---- MODULE Spec2Model ----
(***************************************************************************)
(* The Bluesky firehose connectors of moosesky.                            *)
(*                                                                         *)
(*   K  the Kafka-stream connector                                         *)
(*      (packages/moosestack-service/app/workflows/firehose.ts)            *)
(*   H  the HTTP-batching connector (unnamed/part_004, lines 1-360)        *)
(*                                                                         *)
(* Both are one Node.js event loop: a handler runs to its first await      *)
(* without interleaving, so every action below is one such run.  Time is   *)
(* abstract: cursors and clock readings are small naturals (the clock      *)
(* counts hours), socket, timer, sink and cursor-store events happen in    *)
(* any order.                                                              *)
(*                                                                         *)
(* The later sections model the message parser of each connector, word     *)
(* extraction and the aggregation transform (app/ingest/                   *)
(* bluesky-transforms.ts) and the WordTrends materialized view             *)
(* (packages/moosestack-service/app/views/wordTrends.ts).                  *)
(***************************************************************************)
EXTENDS Integers, Sequences, FiniteSets, TLC

\* ------------------------------------------------------------- bounds
\* messages the feed delivers in one process lifetime
MaxMsgs == 2
\* BATCH_SIZE (100 in the source), scaled
BATCH_SIZE == 2
\* the period of the cursor save (1000 messages in the source), scaled
SAVE_EVERY == 2
\* MAX_CONCURRENT_REQUESTS (5 in the source), scaled
MAX_CONCURRENT_REQUESTS == 1
\* the most errors the stats counter postsErrored is followed up to
MaxErrors == 2
\* the most tokens in the text of a post given to the transform
MaxTokens == 3
\* posts delivered to the transform in a run that fills the tables
MaxEvents == 2
\* requests the Trend Query API receives in a run
MaxRequests == 2
\* signal handlers the model counts on the process: two connections' worth
MaxHandlers == 4

\* ------------------------------------------------- program constants
\* loadCursor's lookback, in hours
LOOKBACK_HOURS_K == 24
LOOKBACK_HOURS_H == 1
\* the reconnect loop's delays, in milliseconds
RECONNECT_DELAY_MS == 5000
ERROR_DELAY_MS == 10000

\* Date.now() at loadCursor, in hours: later than any lookback window
NowVals == {LOOKBACK_HOURS_K + 1}

\* the time_us values of inbound messages: an earlier and a later position
\* (0 stands for a missing or falsy field)
TimeVals == {1, 2}

\* ------------------------------------------------ number <-> string
Digits == <<"0", "1", "2", "3", "4", "5", "6", "7", "8", "9">>

\* Number.prototype.toString() of a natural
RECURSIVE NumToString(_)
NumToString(n) ==
  IF n < 10 THEN <<Digits[n + 1]>>
  ELSE NumToString(n \div 10) \o <<Digits[(n % 10) + 1]>>

IsDigit(c) == \E d \in 1..10 : Digits[d] = c
DigitVal(c) == (CHOOSE d \in 1..10 : Digits[d] = c) - 1

\* parseInt(s, 10): the value of the leading digits; NaN (here -1) without any
RECURSIVE ParseDigits(_, _)
ParseDigits(s, acc) ==
  IF s = <<>> \/ ~IsDigit(Head(s)) THEN acc
  ELSE ParseDigits(Tail(s), acc * 10 + DigitVal(Head(s)))

ParseInt(s) ==
  IF s = <<>> \/ ~IsDigit(Head(s)) THEN -1 ELSE ParseDigits(s, 0)

\* --------------------------------------------------------- messages
POST_COLLECTION == "app.bsky.feed.post"

Msg(t, k, op, col, txt) ==
  [json |-> TRUE, time_us |-> t, kind |-> k, operation |-> op,
   collection |-> col, text |-> txt]

\* a frame that is not JSON
Malformed ==
  [json |-> FALSE, time_us |-> 0, kind |-> "", operation |-> "",
   collection |-> "", text |-> ""]

\* the shapes the feed sends: a post creation, a post deletion, a like, a
\* post without text, an identity event; each with or without time_us
Messages ==
  {Malformed} \cup
  UNION {{Msg(t, "commit", "create", POST_COLLECTION, "hi"),
          Msg(t, "commit", "delete", POST_COLLECTION, ""),
          Msg(t, "commit", "create", "app.bsky.feed.like", ""),
          Msg(t, "commit", "create", POST_COLLECTION, ""),
          Msg(t, "identity", "", "", "")} : t \in {0} \cup TimeVals}

\* parseJetStreamMessage(data) # null
parseJetStreamMessage(m) ==
  /\ m.json
  /\ ~(\/ m.kind # "commit"
       \/ m.operation # "create"
       \/ m.collection # POST_COLLECTION
       \/ m.text = "")

VARIABLES
  connector,      \* which connector runs: "K", "H", or "A" (app/workflows)
  pc,             \* where firehoseTask.run stands
  sock,           \* the WebSocket of the current connection
  aborted,        \* cancellationSignal.aborted
  wasCancelled,   \* connectAndProcess's wasCancelled
  result,         \* what connectAndProcess last resolved with
  delay,          \* the delay of the sleep the loop is in (0: none)
  url,            \* the last subscription URL built (<<>>: none yet)
  loadResult,     \* how loadCursor ended: "none", "hit", "absent", "failed"
  currentCursor,
  store,          \* the cursor store's value, a string (<<>>: no value)
  messageCount,
  postBatch,
  batchTimer,     \* a flush timer is armed
  sends,          \* the batches handed to the sink's send, in order
  saves,          \* un-awaited saveCursor calls still running
  closeWait,      \* K only: the send the close handler's flush started (0: none)
  closeWrote,     \* the cursor the close handler's save wrote (0: none)
  activeRequests, \* H only
  waitExpired,    \* H only: the close handler's 5 s have elapsed
  nmsgs,          \* messages delivered so far
  queued,         \* time_us of every post passed to queuePost, in order
  lastPos,        \* time_us of the last position-bearing message (0: none)
  timerAt,        \* the number of posts queued when the armed timer was set
  postsProcessed, \* the stats counter of posts sent
  postsErrored,   \* H only: the stats counter of errors
  handlers,       \* SIGINT and SIGTERM handlers registered on the process
  stage,          \* where the parse or transform pipeline stands: idle, received, done
  input,          \* the message or post the pipeline took (<<>>: none)
  output,         \* what parseJetStreamMessage or the transform returned
  table,          \* the rows of the WordOccurrence table
  trends,         \* the rows of the WordTrends table
  topic,          \* the WordOccurrence stream: records not yet in the table
  delivered,      \* posts delivered to the transform so far
  zone,           \* the host's time zone: its offsets from UTC and their change
  reqs,           \* the Trend Query API's request handlers, one for each slot
  cache,          \* MooseCache: key -> value, expiry and the response that set it
  clock,          \* Date.now() of the API host, in milliseconds
  served          \* requests the API has received so far

vars ==
  <<connector, pc, sock, aborted, wasCancelled, result, delay, url, loadResult,
    currentCursor, store, messageCount, postBatch, batchTimer, sends, saves,
    closeWait, closeWrote, activeRequests, waitExpired, nmsgs, queued, lastPos,
    timerAt,
    postsProcessed,
    postsErrored,
    handlers,
    stage,
    input,
    output,
    table,
    trends,
    topic,
    delivered,
    zone,
    reqs,
    cache,
    clock,
    served>>

\* the state of the parse and transform pipelines
\* the state of the Trend Query API
apiVars == <<reqs, cache, clock, served>>

pipeVars ==
  <<stage, input, output, table, trends, topic, delivered, zone, apiVars>>

\* the state of the connectors
connVars ==
  <<connector, pc, sock, aborted, wasCancelled, result, delay, url, loadResult,
    currentCursor, store, messageCount, postBatch, batchTimer, sends, saves,
    closeWait, closeWrote, activeRequests, waitExpired, nmsgs, queued, lastPos,
    timerAt, postsProcessed, postsErrored, handlers>>

\* the socket exists and its close handler has not run
Live == {"connecting", "open", "closing", "errored"}

\* the values a previous run can have left in the store
InitStores == {<<>>, NumToString(2)}

\* the API serves at most this many requests at once
Slots == {1, 2}

\* a slot that has no request
IdleRequest == [pc |-> "idle"]

\* the instants at which the API host's clock is read, in milliseconds:
\* two hours after the epoch, half a second, 20 and 40 seconds later
ApiTimes == <<7200000, 7200500, 7220000, 7240000>>

\* the module's state besides the run's position, its socket and its cursor
InitRest ==
  /\ aborted = FALSE
  /\ wasCancelled = FALSE
  /\ result = "none"
  /\ delay = 0
  /\ postBatch = <<>>
  /\ batchTimer = FALSE
  /\ sends = <<>>
  /\ saves = <<>>
  /\ closeWait = 0
  /\ closeWrote = 0
  /\ activeRequests = 0
  /\ waitExpired = FALSE
  /\ nmsgs = 0
  /\ queued = <<>>
  /\ timerAt = 0
  /\ postsProcessed = 0
  /\ postsErrored = 0
  /\ stage = "idle"
  /\ input = <<>>
  /\ output = <<>>
  /\ table = <<>>
  /\ trends = <<>>
  /\ topic = <<>>
  /\ delivered = 0
  /\ reqs = [s \in Slots |-> IdleRequest]
  /\ cache = <<>>
  /\ clock = ApiTimes[1]
  /\ served = 0

InitState ==
  /\ pc = "start"
  /\ sock = "none"
  /\ url = <<>>
  /\ loadResult = "none"
  /\ currentCursor = 0
  /\ store \in InitStores
  /\ messageCount = 0
  /\ lastPos = 0
  /\ handlers = 0
  /\ InitRest

\* a host on UTC: no offset, no change of offset
UtcZone == [before |-> 0, after |-> 0, at |-> 0]

InitCommon == InitState /\ zone = UtcZone

\* ----------------------------------------------- shared by K and H

\* loadCursor() that starts from now when nothing is stored
loadCursorFromNow(value, failed, now, lookback) ==
  IF ~failed /\ value # <<>> THEN ParseInt(value) ELSE now

\* loadCursor(): the stored value parsed, or now minus the lookback
loadCursor(value, failed, now, lookback) ==
  IF ~failed /\ value # <<>> THEN ParseInt(value) ELSE now - lookback

\* the lookback of each connector's loadCursor
Lookback(c) == IF c = "K" THEN LOOKBACK_HOURS_K ELSE LOOKBACK_HOURS_H

\* the subscription URL: the base, with &cursor=<c> when c > 0
BuildUrl(c) == IF c > 0 THEN <<"base", c>> ELSE <<"base">>

\* the loop of the connector without cancellation: while (true)
LoopGuardAlways == TRUE

\* while (!cancellationSignal.aborted)
LoopGuard == ~aborted

\* The head of the reconnection loop with in-memory cursor c, up to the next
\* await: run returns, or connectAndProcess runs its promise executor, where
\* new WebSocket(url) either gives a socket or throws (the promise rejects).
\* process.on("SIGINT", ...) and process.on("SIGTERM", ...): the handlers
\* on the process after a connection added its two (the model stops counting
\* when two more would exceed MaxHandlers)
Registered(h) == IF h + 2 <= MaxHandlers THEN h + 2 ELSE h

LoopHead(c) ==
  IF ~LoopGuard
  THEN /\ pc' = "done"
       /\ UNCHANGED <<connector, sock, wasCancelled, url, messageCount,
                      handlers>>
  ELSE /\ url' = BuildUrl(c)
       /\ \E thrown \in BOOLEAN :
            IF thrown
            THEN /\ pc' = "catch"
                 /\ UNCHANGED <<connector, sock, wasCancelled, messageCount,
                                handlers>>
            ELSE /\ pc' = "connected"
                 /\ sock' = "connecting"
                 /\ messageCount' = 0
                 /\ wasCancelled' = FALSE
                 /\ handlers' = Registered(handlers)

\* firehoseTask.run from its start: loadCursor, then the loop's head
Start(fails) ==
  /\ pc = "start"
  /\ \E failed \in fails, now \in NowVals :
       /\ currentCursor' = loadCursor(store, failed, now, Lookback(connector))
       /\ loadResult' = IF failed THEN "failed"
                        ELSE IF store # <<>> THEN "hit" ELSE "absent"
  /\ LoopHead(currentCursor')
  /\ UNCHANGED <<connector, pipeVars, postsErrored, postsProcessed, timerAt, aborted, result, delay, store, postBatch, batchTimer, sends,
                 saves, closeWait, closeWrote, activeRequests, waitExpired,
                 nmsgs, queued, lastPos>>

\* a catch block that gives up: run returns on a failed attempt
CatchTargetReturn == [pc |-> "done", delay |-> 0]

\* where the catch block goes: [pc, delay]
CatchTarget ==
  IF aborted THEN [pc |-> "done", delay |-> 0]
  ELSE [pc |-> "sleep", delay |-> ERROR_DELAY_MS]

\* the catch block of the loop
Catch ==
  /\ pc = "catch"
  /\ pc' = CatchTarget.pc
  /\ delay' = CatchTarget.delay
  /\ UNCHANGED <<connector, handlers, pipeVars, postsErrored, postsProcessed, timerAt, sock, aborted, wasCancelled, result, url, loadResult,
                 currentCursor, store, messageCount, postBatch, batchTimer,
                 sends, saves, closeWait, closeWrote, activeRequests,
                 waitExpired, nmsgs, queued, lastPos>>

\* a loop that reads the cursor store again before each reconnect
SleepDoneReloads ==
  /\ pc = "sleep"
  /\ delay' = 0
  /\ \E now \in NowVals :
       currentCursor' = loadCursor(store, FALSE, now, Lookback(connector))
  /\ LoopHead(currentCursor')
  /\ UNCHANGED <<connector, pipeVars, postsErrored, postsProcessed, timerAt, aborted, result, loadResult, store, postBatch,
                 batchTimer, sends, saves, closeWait, closeWrote,
                 activeRequests, waitExpired, nmsgs, queued, lastPos>>

\* the sleep's timer fires: the loop's head runs again
SleepDone ==
  /\ pc = "sleep"
  /\ delay' = 0
  /\ LoopHead(currentCursor)
  /\ UNCHANGED <<connector, pipeVars, postsErrored, postsProcessed, timerAt, aborted, result, loadResult, currentCursor, store, postBatch,
                 batchTimer, sends, saves, closeWait, closeWrote,
                 activeRequests, waitExpired, nmsgs, queued, lastPos>>

SockOpen ==
  /\ sock = "connecting"
  /\ sock' = "open"
  /\ UNCHANGED <<connector, handlers, pipeVars, postsErrored, postsProcessed, timerAt, pc, aborted, wasCancelled, result, delay, url, loadResult,
                 currentCursor, store, messageCount, postBatch, batchTimer,
                 sends, saves, closeWait, closeWrote, activeRequests,
                 waitExpired, nmsgs, queued, lastPos>>

\* an error handler that also settles connectAndProcess: the loop goes on
\* to its reconnect sleep while the socket has yet to deliver its close
SockErrorReports ==
  /\ sock \in {"connecting", "open"}
  /\ sock' = "errored"
  /\ pc = "connected"
  /\ pc' = "sleep"
  /\ result' = "disconnected"
  /\ delay' = RECONNECT_DELAY_MS
  /\ UNCHANGED <<connector, handlers, pipeVars, postsErrored, postsProcessed, timerAt, aborted, wasCancelled, url, loadResult,
                 currentCursor, store, messageCount, postBatch, batchTimer,
                 sends, saves, closeWait, closeWrote, activeRequests,
                 waitExpired, nmsgs, queued, lastPos>>

\* ws.on("error"): logs, and in H counts an error; the close event follows
SockError ==
  /\ sock \in {"connecting", "open"}
  /\ sock' = "errored"
  /\ IF connector = "H"
     THEN postsErrored < MaxErrors /\ postsErrored' = postsErrored + 1
     ELSE postsErrored' = postsErrored
  /\ UNCHANGED <<connector, handlers, pipeVars, postsProcessed, timerAt, pc, aborted, wasCancelled, result, delay, url, loadResult,
                 currentCursor, store, messageCount, postBatch, batchTimer,
                 sends, saves, closeWait, closeWrote, activeRequests,
                 waitExpired, nmsgs, queued, lastPos>>

\* ws.close() called on the current socket: an open socket starts the closing
\* handshake, a connecting one aborts its handshake (no message will come)
WsClose(s) ==
  IF s = "open" THEN "closing" ELSE IF s = "connecting" THEN "errored" ELSE s

\* the SIGINT / SIGTERM handlers
Signal ==
  /\ sock \in {"connecting", "open"}
  /\ sock' = WsClose(sock)
  /\ UNCHANGED <<connector, handlers, pipeVars, postsErrored, postsProcessed, timerAt, pc, aborted, wasCancelled, result, delay, url, loadResult,
                 currentCursor, store, messageCount, postBatch, batchTimer,
                 sends, saves, closeWait, closeWrote, activeRequests,
                 waitExpired, nmsgs, queued, lastPos>>

\* the cancellation signal aborts; onCancelled runs if it is registered
Abort ==
  /\ ~aborted
  /\ aborted' = TRUE
  /\ wasCancelled' = IF sock \in Live THEN TRUE ELSE wasCancelled
  /\ sock' = WsClose(sock)
  /\ UNCHANGED <<connector, handlers, pipeVars, postsErrored, postsProcessed, timerAt, pc, result, delay, url, loadResult, currentCursor, store,
                 messageCount, postBatch, batchTimer, sends, saves, closeWait,
                 closeWrote, activeRequests, waitExpired, nmsgs, queued, lastPos>>

\* an un-awaited saveCursor call ends: it wrote, or failed and logged
SaveDone(oks) ==
  /\ \E j \in 1..Len(saves), ok \in oks :
       /\ store' = IF ok THEN NumToString(saves[j]) ELSE store
       /\ saves' = SubSeq(saves, 1, j - 1) \o SubSeq(saves, j + 1, Len(saves))
  /\ UNCHANGED <<connector, handlers, pipeVars, postsErrored, postsProcessed, timerAt, pc, sock, aborted, wasCancelled, result, delay, url,
                 loadResult, currentCursor, messageCount, postBatch,
                 batchTimer, sends, closeWait, closeWrote, activeRequests,
                 waitExpired, nmsgs, queued, lastPos>>

\* a cursor block that tests the count before incrementing it
TrackCursorTestsFirst(m, cursor, count) ==
  IF m.json /\ m.time_us # 0
  THEN [cursor |-> m.time_us, count |-> count + 1,
        save |-> (count % SAVE_EVERY = 0)]
  ELSE [cursor |-> cursor, count |-> count, save |-> FALSE]

\* the message handler's cursor block: [cursor, count, save]
\* (save: saveCursor is called with the cursor)
TrackCursor(m, cursor, count) ==
  IF m.json /\ m.time_us # 0
  THEN [cursor |-> m.time_us, count |-> count + 1,
        save |-> ((count + 1) % SAVE_EVERY = 0)]
  ELSE [cursor |-> cursor, count |-> count, save |-> FALSE]

\* logStats(): a counter after the call (due: 60 s have passed since the
\* last report, so the counters are printed and reset)
logStats(counter, due) == IF due THEN 0 ELSE counter

\* a close handler that reads the signal instead of the listener's flag
ResolutionBySignal(cancelled) ==
  IF aborted THEN "cancelled" ELSE "disconnected"

\* what connectAndProcess resolves with
Resolution(cancelled) == IF cancelled THEN "cancelled" ELSE "disconnected"

\* the loop after connectAndProcess resolved: [pc, delay]
AfterResult(r) ==
  IF r = "cancelled" THEN [pc |-> "done", delay |-> 0]
  ELSE [pc |-> "sleep", delay |-> RECONNECT_DELAY_MS]

\* a saveCursor without its try/catch: a failed store call rejects
saveCursorRethrows(ok) == ~ok

\* saveCursor's promise rejects: never, its catch block logs and returns
saveCursorRejects(ok) == FALSE

\* the close handler's awaited saveCursor(currentCursor) ends, and
\* connectAndProcess resolves (were the await to reject, the handler would
\* end there and connectAndProcess would never resolve)
CloseSaved(oks) ==
  /\ pc = "closeSave"
  /\ \E ok \in oks :
       /\ store' = IF ok THEN NumToString(currentCursor) ELSE store
       /\ closeWrote' = IF ok THEN currentCursor ELSE 0
       /\ IF saveCursorRejects(ok)
          THEN /\ pc' = "closeRejected"
               /\ UNCHANGED <<result, delay>>
          ELSE /\ result' = Resolution(wasCancelled)
               /\ pc' = AfterResult(result').pc
               /\ delay' = AfterResult(result').delay
  /\ UNCHANGED <<connector, handlers, pipeVars, postsErrored, postsProcessed, timerAt, sock, aborted, wasCancelled, url, loadResult, currentCursor,
                 messageCount, postBatch, batchTimer, sends, saves, closeWait,
                 activeRequests, waitExpired, nmsgs, queued, lastPos>>

\* a close handler that resolves without saving the cursor
CloseProceedNoSave ==
  /\ result' = Resolution(wasCancelled)
  /\ pc' = AfterResult(result').pc
  /\ delay' = AfterResult(result').delay

\* the close handler once its flush (K) or wait loop (H) has ended: it calls saveCursor, or
\* resolves at once when the cursor is not positive
CloseProceed ==
  IF currentCursor > 0
  THEN /\ pc' = "closeSave"
       /\ UNCHANGED <<connector, result, delay>>
  ELSE /\ result' = Resolution(wasCancelled)
       /\ pc' = AfterResult(result').pc
       /\ delay' = AfterResult(result').delay

\* ------------------------------------------- K: the Kafka-stream connector

\* the timer's record after a queuePost or flushBatch call that returned q:
\* when the armed timer was set, as the number of posts queued (0: none armed)
TimerAt(q, at, n) ==
  IF ~q.batchTimer THEN 0 ELSE IF q.armed THEN n ELSE at

\* a flushBatch() that sends the batch and keeps it
flushBatchKeepsK(batch, s) ==
  IF batch = <<>>
  THEN [postBatch |-> batch, batchTimer |-> FALSE, sends |-> s]
  ELSE [postBatch |-> batch, batchTimer |-> FALSE,
        sends |-> Append(s, [batch |-> batch, st |-> "inflight"])]

\* a flushBatch() that returns only when the sink has answered
flushBatchWaitsK(batch, s) ==
  IF batch = <<>>
  THEN [postBatch |-> batch, batchTimer |-> FALSE, sends |-> s]
  ELSE [postBatch |-> <<>>, batchTimer |-> FALSE,
        sends |-> Append(s, [batch |-> batch, st |-> "ok"])]

\* flushBatch() up to its await: [postBatch, batchTimer, sends]
flushBatchK(batch, s) ==
  IF batch = <<>>
  THEN [postBatch |-> batch, batchTimer |-> FALSE, sends |-> s]
  ELSE [postBatch |-> <<>>, batchTimer |-> FALSE,
        sends |-> Append(s, [batch |-> batch, st |-> "inflight"])]

\* a queuePost(post) that never arms the timer
queuePostNoTimerK(batch, timer, s, post) ==
  LET b == Append(batch, post) IN
  IF Len(b) >= BATCH_SIZE
  THEN [postBatch |-> <<>>, batchTimer |-> FALSE, armed |-> FALSE,
        sends |-> Append(s, [batch |-> b, st |-> "inflight"])]
  ELSE [postBatch |-> b, batchTimer |-> timer, armed |-> FALSE, sends |-> s]

\* queuePost(post): [postBatch, batchTimer, sends, armed]
\* (armed: this call set a new timer)
queuePostK(batch, timer, s, post) ==
  LET b == Append(batch, post)
      f == flushBatchK(b, s)
  IN IF Len(b) >= BATCH_SIZE
     THEN [postBatch |-> f.postBatch, batchTimer |-> f.batchTimer,
           sends |-> f.sends, armed |-> FALSE]
     ELSE [postBatch |-> b, batchTimer |-> TRUE, sends |-> s,
           armed |-> ~timer]

\* ws.on("message") on the frame m
MessageKOf(m) ==
  /\ connector = "K"
  /\ pc = "connected"
  /\ sock \in {"open", "closing"}
  /\ nmsgs < MaxMsgs
  /\   LET tc == TrackCursor(m, currentCursor, messageCount)
           post == parseJetStreamMessage(m)
           q == IF post
                THEN queuePostK(postBatch, batchTimer, sends, Len(queued) + 1)
                ELSE [postBatch |-> postBatch, batchTimer |-> batchTimer,
                      sends |-> sends, armed |-> FALSE]
       IN /\ currentCursor' = tc.cursor
          /\ messageCount' = tc.count
          /\ saves' = IF tc.save THEN Append(saves, tc.cursor) ELSE saves
          /\ \E due \in IF tc.save THEN BOOLEAN ELSE {FALSE} :
               postsProcessed' = logStats(postsProcessed, due)
          /\ postBatch' = q.postBatch
          /\ batchTimer' = q.batchTimer
          /\ sends' = q.sends
          /\ timerAt' = TimerAt(q, timerAt, Len(queued) + 1)
          /\ queued' = IF post THEN Append(queued, m.time_us) ELSE queued
          /\ lastPos' = IF m.json /\ m.time_us # 0 THEN m.time_us ELSE lastPos
  /\ nmsgs' = nmsgs + 1
  /\ UNCHANGED <<connector, handlers, pipeVars, postsErrored, pc, sock, aborted, wasCancelled, result, delay, url,
                 loadResult, store, closeWait, closeWrote, activeRequests,
                 waitExpired>>

\* ws.on("message")
MessageK == \E m \in Messages : MessageKOf(m)

\* the flush timer fires
TimerK ==
  /\ connector = "K"
  /\ batchTimer
  /\ LET f == flushBatchK(postBatch, sends) IN
       /\ postBatch' = f.postBatch
       /\ batchTimer' = f.batchTimer
       /\ sends' = f.sends
  /\ timerAt' = 0
  /\ UNCHANGED <<connector, handlers, pipeVars, postsErrored, postsProcessed, pc, sock, aborted, wasCancelled, result, delay, url,
                 loadResult, currentCursor, store, messageCount, saves,
                 closeWait, closeWrote, activeRequests, waitExpired, nmsgs,
                 queued, lastPos>>

\* BlueskyPostPipeline.stream.send(batch) resolves or rejects
SendDoneK(oks) ==
  /\ connector = "K"
  /\ \E i \in 1..Len(sends), ok \in oks :
       /\ sends[i].st = "inflight"
       /\ sends' = [sends EXCEPT ![i].st = IF ok THEN "ok" ELSE "failed"]
       /\ postsProcessed' =
            IF ok THEN postsProcessed + Len(sends[i].batch) ELSE postsProcessed
  /\ UNCHANGED <<connector, handlers, pipeVars, postsErrored, timerAt, pc, sock, aborted, wasCancelled, result, delay, url,
                 loadResult, currentCursor, store, messageCount, postBatch,
                 batchTimer, saves, closeWait, closeWrote, activeRequests,
                 waitExpired, nmsgs, queued, lastPos>>

\* what the close handler awaits after its flushBatch() call: the index of
\* the send it started (0: it started none)
CloseAwaitsK(before, after) ==
  IF Len(after) > Len(before) THEN Len(after) ELSE 0

\* ws.on("close") up to its first await
CloseEventK ==
  /\ connector = "K"
  /\ pc = "connected"
  /\ sock \in {"open", "closing", "errored"}
  /\ sock' = "closed"
  /\ LET f == flushBatchK(postBatch, sends) IN
       /\ postBatch' = f.postBatch
       /\ batchTimer' = f.batchTimer
       /\ sends' = f.sends
       /\ closeWait' = CloseAwaitsK(sends, f.sends)
  /\ timerAt' = 0
  /\ closeWrote' = 0
  /\ pc' = "closeFlush"
  /\ UNCHANGED <<connector, handlers, pipeVars, postsErrored, postsProcessed, aborted, wasCancelled, result, delay, url, loadResult,
                 currentCursor, store, messageCount, saves, activeRequests,
                 waitExpired, nmsgs, queued, lastPos>>

\* the close handler after await flushBatch(): it calls saveCursor, or
\* resolves at once when the cursor is not positive
CloseFlushedK ==
  /\ connector = "K"
  /\ pc = "closeFlush"
  /\ IF closeWait = 0 THEN TRUE ELSE sends[closeWait].st # "inflight"
  /\ CloseProceed
  /\ UNCHANGED <<connector, handlers, pipeVars, postsErrored, postsProcessed, timerAt, sock, aborted, wasCancelled, url, loadResult, currentCursor,
                 store, messageCount, postBatch, batchTimer, sends, saves,
                 closeWait, closeWrote, activeRequests, waitExpired, nmsgs, queued,
                 lastPos>>

\* ------------------------------------------ H: the HTTP-batching connector

\* a sendBatch(posts) that starts its POSTs whatever is in flight
sendBatchNoCapH(batch, s, active) ==
  [sends |-> Append(s, [batch |-> batch, st |-> "active", idx |-> 0,
                        thrown |-> FALSE]),
   activeRequests |-> active + 1]

\* sendBatch(posts) up to its first await: the batch starts its POSTs, or
\* waits behind the cap: [sends, activeRequests]
sendBatchH(batch, s, active) ==
  IF active >= MAX_CONCURRENT_REQUESTS
  THEN [sends |-> Append(s, [batch |-> batch, st |-> "waiting", idx |-> 0,
                             thrown |-> FALSE]),
        activeRequests |-> active]
  ELSE [sends |-> Append(s, [batch |-> batch, st |-> "active", idx |-> 0,
                             thrown |-> FALSE]),
        activeRequests |-> active + 1]

\* flushBatch(): [postBatch, batchTimer, sends, activeRequests]
flushBatchH(batch, s, active) ==
  IF batch = <<>>
  THEN [postBatch |-> batch, batchTimer |-> FALSE, sends |-> s,
        activeRequests |-> active]
  ELSE LET sb == sendBatchH(batch, s, active) IN
       [postBatch |-> <<>>, batchTimer |-> FALSE, sends |-> sb.sends,
        activeRequests |-> sb.activeRequests]

\* a queuePost(post) that flushes only above BATCH_SIZE
queuePostLateH(batch, timer, s, active, post) ==
  LET b == Append(batch, post)
      f == IF Len(b) > BATCH_SIZE THEN flushBatchH(b, s, active)
           ELSE [postBatch |-> b, batchTimer |-> timer, sends |-> s,
                 activeRequests |-> active]
  IN [postBatch |-> f.postBatch, batchTimer |-> TRUE, sends |-> f.sends,
      activeRequests |-> f.activeRequests, armed |-> ~f.batchTimer]

\* queuePost(post): [postBatch, batchTimer, sends, activeRequests, armed]
queuePostH(batch, timer, s, active, post) ==
  LET b == Append(batch, post)
      f == IF Len(b) >= BATCH_SIZE THEN flushBatchH(b, s, active)
           ELSE [postBatch |-> b, batchTimer |-> timer, sends |-> s,
                 activeRequests |-> active]
  IN [postBatch |-> f.postBatch, batchTimer |-> TRUE, sends |-> f.sends,
      activeRequests |-> f.activeRequests, armed |-> ~f.batchTimer]

\* ws.on("message") on the frame m
MessageHOf(m) ==
  /\ connector = "H"
  /\ pc = "connected"
  /\ sock \in {"open", "closing"}
  /\ nmsgs < MaxMsgs
  /\   LET tc == TrackCursor(m, currentCursor, messageCount)
           post == parseJetStreamMessage(m)
           q == IF post
                THEN queuePostH(postBatch, batchTimer, sends, activeRequests,
                                Len(queued) + 1)
                ELSE [postBatch |-> postBatch, batchTimer |-> batchTimer,
                      sends |-> sends, activeRequests |-> activeRequests,
                      armed |-> FALSE]
       IN /\ currentCursor' = tc.cursor
          /\ messageCount' = tc.count
          /\ saves' = IF tc.save THEN Append(saves, tc.cursor) ELSE saves
          /\ \E due \in IF tc.save THEN BOOLEAN ELSE {FALSE} :
               /\ postsProcessed' = logStats(postsProcessed, due)
               /\ postsErrored' = logStats(postsErrored, due)
          /\ postBatch' = q.postBatch
          /\ batchTimer' = q.batchTimer
          /\ sends' = q.sends
          /\ activeRequests' = q.activeRequests
          /\ timerAt' = TimerAt(q, timerAt, Len(queued) + 1)
          /\ queued' = IF post THEN Append(queued, m.time_us) ELSE queued
          /\ lastPos' = IF m.json /\ m.time_us # 0 THEN m.time_us ELSE lastPos
  /\ nmsgs' = nmsgs + 1
  /\ UNCHANGED <<connector, handlers, pipeVars, pc, sock, aborted, wasCancelled, result, delay, url,
                 loadResult, store, closeWait, closeWrote, waitExpired>>

\* ws.on("message")
MessageH == \E m \in Messages : MessageHOf(m)

\* the flush timer fires
TimerH ==
  /\ connector = "H"
  /\ batchTimer
  /\ LET f == flushBatchH(postBatch, sends, activeRequests) IN
       /\ postBatch' = f.postBatch
       /\ batchTimer' = f.batchTimer
       /\ sends' = f.sends
       /\ activeRequests' = f.activeRequests
  /\ timerAt' = 0
  /\ UNCHANGED <<connector, handlers, pipeVars, postsErrored, postsProcessed, pc, sock, aborted, wasCancelled, result, delay, url,
                 loadResult, currentCursor, store, messageCount, saves,
                 closeWait, closeWrote, waitExpired, nmsgs, queued, lastPos>>

\* a batch waiting in sendBatch's polling loop wakes and finds room
PollSendH ==
  /\ connector = "H"
  /\ activeRequests < MAX_CONCURRENT_REQUESTS
  /\ \E i \in 1..Len(sends) :
       /\ sends[i].st = "waiting"
       /\ sends' = [sends EXCEPT ![i].st = "active"]
  /\ activeRequests' = activeRequests + 1
  /\ UNCHANGED <<connector, handlers, pipeVars, postsErrored, postsProcessed, timerAt, pc, sock, aborted, wasCancelled, result, delay, url,
                 loadResult, currentCursor, store, messageCount, postBatch,
                 batchTimer, saves, closeWait, closeWrote, waitExpired, nmsgs,
                 queued, lastPos>>

\* how a fetch settles: response.ok, a response that is not ok, or a throw
FetchOutcomes == {"ok", "rejected", "thrown"}

\* sendBatch after one fetch settled: the next post, or the finally block
\* (answered: the fetch resolved, ok or not; otherwise it threw)
AfterFetchH(send, answered) ==
  IF answered /\ send.idx + 1 < Len(send.batch)
  THEN [send EXCEPT !.idx = send.idx + 1]
  ELSE [send EXCEPT !.idx = IF answered THEN send.idx + 1 ELSE send.idx,
                    !.st = "done",
                    !.thrown = ~answered]

\* sendBatch's counting of one settled fetch: [postsProcessed, postsErrored]
CountFetchH(send, outcome, processed, errored) ==
  [postsProcessed |-> IF outcome = "ok" THEN processed + 1 ELSE processed,
   postsErrored |-> IF outcome = "rejected" THEN errored + 1
                    ELSE IF outcome = "thrown" THEN errored + Len(send.batch)
                    ELSE errored]

\* the fetch of an active batch's current post settles
FetchH ==
  /\ connector = "H"
  /\ \E i \in 1..Len(sends), outcome \in FetchOutcomes :
       LET c == CountFetchH(sends[i], outcome, postsProcessed, postsErrored)
       IN /\ sends[i].st = "active"
          /\ c.postsErrored <= MaxErrors
          /\ sends' = [sends EXCEPT
                         ![i] = AfterFetchH(sends[i], outcome # "thrown")]
          /\ postsProcessed' = c.postsProcessed
          /\ postsErrored' = c.postsErrored
       /\ activeRequests' =
            IF sends'[i].st = "done" THEN activeRequests - 1 ELSE activeRequests
  /\ UNCHANGED <<connector, handlers, pipeVars, timerAt, pc, sock, aborted, wasCancelled, result, delay, url,
                 loadResult, currentCursor, store, messageCount, postBatch,
                 batchTimer, saves, closeWait, closeWrote, waitExpired, nmsgs,
                 queued, lastPos>>

\* the close handler's wait loop: while (activeRequests > 0 && elapsed < 5000)
CloseWaitsH(active, expired) == active > 0 /\ ~expired

\* ws.on("close") up to its first await
CloseEventH ==
  /\ connector = "H"
  /\ pc = "connected"
  /\ sock \in {"open", "closing", "errored"}
  /\ sock' = "closed"
  /\ LET f == flushBatchH(postBatch, sends, activeRequests) IN
       /\ postBatch' = f.postBatch
       /\ batchTimer' = f.batchTimer
       /\ sends' = f.sends
       /\ activeRequests' = f.activeRequests
       /\ IF CloseWaitsH(f.activeRequests, FALSE)
          THEN /\ pc' = "closeWait"
               /\ UNCHANGED <<connector, result, delay>>
          ELSE CloseProceed
  /\ waitExpired' = FALSE
  /\ closeWrote' = 0
  /\ timerAt' = 0
  /\ UNCHANGED <<connector, handlers, pipeVars, postsErrored, postsProcessed, aborted, wasCancelled, url, loadResult, currentCursor, store,
                 messageCount, saves, closeWait, nmsgs, queued, lastPos>>

\* 5 seconds have passed since the close handler began to wait
CloseWaitExpireH ==
  /\ connector = "H"
  /\ pc = "closeWait"
  /\ ~waitExpired
  /\ waitExpired' = TRUE
  /\ UNCHANGED <<connector, handlers, pipeVars, postsErrored, postsProcessed, timerAt, pc, sock, aborted, wasCancelled, result, delay, url,
                 loadResult, currentCursor, store, messageCount, postBatch,
                 batchTimer, sends, saves, closeWait, closeWrote,
                 activeRequests, nmsgs, queued, lastPos>>

\* the close handler's 100 ms sleep ends and its loop condition is false
ClosePollH ==
  /\ connector = "H"
  /\ pc = "closeWait"
  /\ ~CloseWaitsH(activeRequests, waitExpired)
  /\ CloseProceed
  /\ UNCHANGED <<connector, handlers, pipeVars, postsErrored, postsProcessed, timerAt, sock, aborted, wasCancelled, url, loadResult, currentCursor,
                 store, messageCount, postBatch, batchTimer, sends, saves,
                 closeWait, closeWrote, activeRequests, waitExpired, nmsgs,
                 queued, lastPos>>

\* ------------------- A: the connector that posts each message's post

\* connectAndProcess's executor at the loop's start or after a sleep:
\* new WebSocket(JETSTREAM_URL) gives a socket, or throws and the loop
\* sleeps 10 s
ConnectA ==
  /\ connector = "A"
  /\ pc \in {"start", "sleep"}
  /\ \E thrown \in BOOLEAN :
       IF thrown
       THEN /\ pc' = "sleep" /\ delay' = ERROR_DELAY_MS /\ sock' = sock
            /\ handlers' = handlers
       ELSE /\ pc' = "connected" /\ delay' = 0 /\ sock' = "connecting"
            /\ handlers' = Registered(handlers)
  /\ UNCHANGED <<connector, pipeVars, postsErrored, postsProcessed, timerAt, aborted, wasCancelled, result, url, loadResult,
                 currentCursor, store, messageCount, postBatch, batchTimer,
                 sends, saves, closeWait, closeWrote, activeRequests,
                 waitExpired, nmsgs, queued, lastPos>>

\* ws.on("message") up to its await: the handler parses the frame and, for
\* a post, calls ingestPost, whose fetch is then pending
MessageA ==
  /\ connector = "A"
  /\ pc = "connected"
  /\ sock = "open"
  /\ nmsgs < MaxMsgs
  /\ \E m \in Messages :
       IF parseJetStreamMessage(m)
       THEN /\ sends' = Append(sends, [batch |-> <<Len(queued) + 1>>,
                                       st |-> "inflight"])
            /\ queued' = Append(queued, m.time_us)
       ELSE UNCHANGED <<sends, queued>>
  /\ nmsgs' = nmsgs + 1
  /\ UNCHANGED <<connector, handlers, pipeVars, postsErrored, postsProcessed, timerAt, pc, sock, aborted, wasCancelled, result, delay, url,
                 loadResult, currentCursor, store, messageCount, postBatch,
                 batchTimer, saves, closeWait, closeWrote, activeRequests,
                 waitExpired, lastPos>>

\* a handler's await ingestPost(post) ends: the handler counts the post and
\* calls logStats
IngestDoneA ==
  /\ connector = "A"
  /\ \E i \in 1..Len(sends), ok \in BOOLEAN, due \in BOOLEAN :
       /\ sends[i].st = "inflight"
       /\ sends' = [sends EXCEPT ![i].st = IF ok THEN "ok" ELSE "failed"]
       /\ postsProcessed' =
            logStats(IF ok THEN postsProcessed + 1 ELSE postsProcessed, due)
       /\ postsErrored' =
            logStats(IF ok THEN postsErrored ELSE postsErrored + 1, due)
  /\ UNCHANGED <<connector, handlers, pipeVars, timerAt, pc, sock, aborted, wasCancelled, result, delay, url,
                 loadResult, currentCursor, store, messageCount, postBatch,
                 batchTimer, saves, closeWait, closeWrote, activeRequests,
                 waitExpired, nmsgs, queued, lastPos>>

\* ws.on("close"): connectAndProcess resolves and the loop sleeps 5 s
CloseEventA ==
  /\ connector = "A"
  /\ pc = "connected"
  /\ sock \in {"connecting", "open"}
  /\ sock' = "closed"
  /\ pc' = "sleep"
  /\ delay' = RECONNECT_DELAY_MS
  /\ UNCHANGED <<connector, handlers, pipeVars, postsErrored, postsProcessed, timerAt, aborted, wasCancelled, result, url, loadResult,
                 currentCursor, store, messageCount, postBatch, batchTimer,
                 sends, saves, closeWait, closeWrote, activeRequests,
                 waitExpired, nmsgs, queued, lastPos>>

\* ------------------------------- parseJetStreamMessage, as a function

\* the frames the parser is given: JetStreamMessage objects with every
\* combination of the fields it reads, and a frame that is not JSON
\* (time_us in microseconds, createdAt as the milliseconds it parses to)
FeedMessages ==
  [json : BOOLEAN, time_us : {1000, 2500}, kind : {"commit", "identity"},
   operation : {"create", "delete"},
   collection : {POST_COLLECTION, "app.bsky.feed.like"},
   text : {"", "hi"}, did : {"did:a", "did:b"}, rkey : {"r1"},
   createdAt : {1, 7}]

\* new Date(msg.time_us / 1000), in milliseconds
serverTimestamp(m) == m.time_us \div 1000

\* the createdAt of the post: K and H take the feed's time_us,
\* app/workflows/firehose.ts takes new Date(record.createdAt)
CreatedAtOf(c, m) == IF c = "A" THEN m.createdAt ELSE serverTimestamp(m)

\* the BlueskyPost parseJetStreamMessage returns, as <<post>>; <<>> for null
ParseResult(c, m) ==
  IF parseJetStreamMessage(m)
  THEN <<[postId |-> <<"at://", m.did, "/app.bsky.feed.post/", m.rkey>>,
          text |-> m.text,
          createdAt |-> CreatedAtOf(c, m),
          authorDid |-> m.did]>>
  ELSE <<>>

\* a frame arrives
ReceiveFrame ==
  /\ stage \in {"idle", "done"}
  /\ input' \in FeedMessages
  /\ output' = <<>>
  /\ stage' = "received"
  /\ UNCHANGED <<connVars, table, trends, topic, delivered, zone, apiVars>>

\* parseJetStreamMessage(data)
Parse ==
  /\ stage = "received"
  /\ output' = ParseResult(connector, input)
  /\ stage' = "done"
  /\ UNCHANGED <<connVars, input, table, trends, topic, delivered, zone, apiVars>>

\* ------------------------------------------------------ specifications

\* what happens besides the feed and the batch queue; oks: the outcomes the
\* cursor store's calls may have (TRUE: success)
NextEnv(oks) ==
  \/ Catch
  \/ SleepDone
  \/ SockOpen
  \/ SockError
  \/ Signal
  \/ Abort
  \/ SaveDone(oks)
  \/ CloseSaved(oks)

\* the Kafka-stream connector; oks: the outcomes of sink and store calls
NextKOf(oks) ==
  \/ Start({~ok : ok \in oks})
  \/ NextEnv(oks)
  \/ MessageK
  \/ TimerK
  \/ SendDoneK(oks)
  \/ CloseEventK
  \/ CloseFlushedK

NextK == NextKOf(BOOLEAN)

\* the HTTP-batching connector
NextH ==
  \/ Start(BOOLEAN)
  \/ NextEnv(BOOLEAN)
  \/ MessageH
  \/ TimerH
  \/ PollSendH
  \/ FetchH
  \/ CloseEventH
  \/ CloseWaitExpireH
  \/ ClosePollH

Init == connector \in {"K", "H"} /\ InitCommon

InitK == connector = "K" /\ InitCommon

InitH == connector = "H" /\ InitCommon

Next ==
  \/ Start(BOOLEAN)
  \/ NextEnv(BOOLEAN)
  \/ MessageK
  \/ TimerK
  \/ SendDoneK(BOOLEAN)
  \/ CloseEventK
  \/ CloseFlushedK
  \/ MessageH
  \/ TimerH
  \/ PollSendH
  \/ FetchH
  \/ CloseEventH
  \/ CloseWaitExpireH
  \/ ClosePollH

\* either connector
Spec == Init /\ [][Next]_vars

SpecK == InitK /\ [][NextK]_vars

SpecH == InitH /\ [][NextH]_vars

\* K with a sink and a cursor store whose calls succeed
NextKOk == NextKOf({TRUE})

\* What the code's scheduling guarantees: timers fire, promises settle, a
\* socket that is closing or has failed delivers its close event, and a
\* handler that can continue does.  The feed, the cancellation signal and
\* the socket's failures are free.
FairK ==
  /\ WF_vars(Start({FALSE}))
  /\ WF_vars(Catch)
  /\ WF_vars(SleepDone)
  /\ WF_vars(TimerK)
  /\ WF_vars(SendDoneK({TRUE}))
  /\ WF_vars(SaveDone({TRUE}))
  /\ WF_vars(CloseEventK /\ sock \in {"closing", "errored"})
  /\ WF_vars(CloseFlushedK)
  /\ WF_vars(CloseSaved({TRUE}))

SpecKFair == InitK /\ [][NextKOk]_vars /\ FairK

\* Either connector with a cursor store that answers every call; sends to
\* the sink succeed or fail.
NextStoreOk ==
  \/ Start({FALSE})
  \/ NextEnv({TRUE})
  \/ MessageK
  \/ TimerK
  \/ SendDoneK(BOOLEAN)
  \/ CloseEventK
  \/ CloseFlushedK
  \/ MessageH
  \/ TimerH
  \/ PollSendH
  \/ FetchH
  \/ CloseEventH
  \/ CloseWaitExpireH
  \/ ClosePollH

SpecStoreOk == Init /\ [][NextStoreOk]_vars

\* K streaming on its first connection, the store empty when the run began
\* and one event without a post handled since: the cursor loaded as now
\* minus the lookback, the connection's count at one
InitStreaming ==
  /\ connector = "K"
  /\ zone = UtcZone
  /\ InitRest
  /\ pc = "connected"
  /\ sock = "open"
  /\ store = <<>>
  /\ loadResult = "absent"
  /\ \E now \in NowVals :
       /\ currentCursor = now - Lookback("K")
       /\ url = BuildUrl(currentCursor)
       /\ lastPos = currentCursor
  /\ messageCount = 1
  /\ handlers = Registered(0)

\* K from there, with a cursor store and a sink that answer every call
NextStreaming ==
  \/ NextEnv({TRUE})
  \/ MessageK
  \/ TimerK
  \/ SendDoneK({TRUE})
  \/ CloseEventK
  \/ CloseFlushedK

SpecStreaming == InitStreaming /\ [][NextStreaming]_vars

\* H's flushes and sends: connections that open, receive and are closed by
\* the server, with a cursor store that answers every call; no cancellation,
\* signal or socket error.  Fetches succeed or fail.
NextHSends ==
  \/ Start({FALSE})
  \/ Catch
  \/ SleepDone
  \/ SockOpen
  \/ SaveDone({TRUE})
  \/ CloseSaved({TRUE})
  \/ MessageH
  \/ TimerH
  \/ PollSendH
  \/ FetchH
  \/ CloseEventH
  \/ CloseWaitExpireH
  \/ ClosePollH

\* What H's scheduling guarantees for its sends: a fetch settles, and the
\* 100 ms sleep of sendBatch's polling loop ends.
FairH == WF_vars(FetchH) /\ WF_vars(PollSendH)

SpecHFair == InitH /\ [][NextHSends]_vars /\ FairH

\* Either connector on a feed that sends nothing: loading the cursor,
\* connecting, closing and reconnecting.
NextSilent ==
  \/ Start(BOOLEAN)
  \/ Catch
  \/ SleepDone
  \/ SockOpen
  \/ SockError
  \/ Signal
  \/ Abort
  \/ CloseSaved(BOOLEAN)
  \/ CloseEventK
  \/ CloseFlushedK
  \/ CloseEventH

SpecSilent == Init /\ [][NextSilent]_vars

\* the connector that posts each message's post
InitA == connector = "A" /\ InitCommon /\ store = <<>>

NextA == ConnectA \/ SockOpen \/ MessageA \/ IngestDoneA \/ CloseEventA

SpecA == InitA /\ [][NextA]_vars

\* parseJetStreamMessage of each of the three connectors, on any frame
InitParse == connector \in {"K", "H", "A"} /\ InitCommon

NextParse == ReceiveFrame \/ Parse

SpecParse == InitParse /\ [][NextParse]_vars

\* ------------------------------------------------------------ claims

InSeq(x, q) == \E k \in 1..Len(q) : q[k] = x

\* the posts passed to queuePost so far (a post is named by its rank)
Posts == 1..Len(queued)

\* in how many batches post n was handed to the sink's send
HandedCount(n) == Cardinality({i \in 1..Len(sends) : InSeq(n, sends[i].batch)})

\* how often post n sits in the open batch
InBatchCount(n) == Cardinality({k \in 1..Len(postBatch) : postBatch[k] = n})

\* C1: (K) the stored cursor marks a fully processed position: every post
\* received in this process with time_us strictly before the stored cursor
\* has been handed to the sink and is no longer in postBatch.  Stated for
\* runs that began with an empty store, where every stored value was saved
\* by this process.
C1_StoredCursorFullyProcessed ==
  (connector = "K" /\ loadResult = "absent" /\ store # <<>>) =>
    \A n \in Posts :
      (queued[n] # 0 /\ queued[n] < ParseInt(store)) =>
        (HandedCount(n) >= 1 /\ InBatchCount(n) = 0)

\* the step in which run, from its start, builds its first subscription URL
FirstRequest == pc = "start" /\ pc' \in {"connected", "catch"}

\* the cursor the first request must carry under a lookback of h hours
FirstCursorOk(h) ==
  \E now \in NowVals :
    url' = <<"base", IF loadResult' = "hit" THEN ParseInt(store) ELSE now - h>>

\* C2 as stated: the first subscription request carries the stored cursor,
\* and now minus 24 hours when the store is empty or cannot be read.
C2_FirstRequest24h ==
  [][FirstRequest => FirstCursorOk(LOOKBACK_HOURS_K)]_vars

\* C2 as amended: the first subscription request carries the stored cursor;
\* when the store is empty or cannot be read it carries now minus the
\* connector's lookback, 24 hours in K and 1 hour in H, never now.
C2_FirstRequestLookback ==
  [][FirstRequest => FirstCursorOk(Lookback(connector))]_vars

\* H fell back to one hour ago and sent that cursor
C2_Witness ==
  /\ connector = "H"
  /\ loadResult \in {"absent", "failed"}
  /\ pc = "connected"
  /\ nmsgs = 0
  /\ \E now \in NowVals : url = <<"base", now - LOOKBACK_HOURS_H>>

\* post n was handed to the sink and the sink accepted its batch
Delivered(n) ==
  \E i \in 1..Len(sends) : InSeq(n, sends[i].batch) /\ sends[i].st = "ok"

\* the step in which the loop, after a sleep, starts a connection attempt
Reconnect == pc = "sleep" /\ pc' \in {"connected", "catch"}

\* C3: (K, sink accepting every batch, no crash) every post the feed
\* delivers is eventually accepted by the sink, whatever closes and
\* reconnects happen; and each reconnect requests the position of the last
\* position-bearing message received.
C3_NoLossAcrossReconnects ==
  /\ \A n \in 1..MaxMsgs : (Len(queued) >= n) ~> Delivered(n)
  /\ [][(Reconnect /\ lastPos # 0) => url' = <<"base", lastPos>>]_vars

\* a post received on an earlier connection was delivered, and the
\* connector has reconnected from the last position
C3_Witness ==
  /\ connector = "K"
  /\ result = "disconnected"
  /\ pc = "connected"
  /\ Len(queued) >= 1
  /\ \A n \in Posts : Delivered(n)
  /\ lastPos # 0
  /\ url = <<"base", lastPos>>

\* C4: (K and H) every post passed to queuePost is in the open batch or in
\* exactly one batch handed to the sink's send, never in both, never in
\* none and never in two; once the close handler has flushed, and until the
\* next connection, it is in exactly one handed batch.
C4_ExactlyOneBatch ==
  /\ \A n \in Posts : InBatchCount(n) + HandedCount(n) = 1
  /\ \A k \in 1..Len(postBatch) : postBatch[k] \in Posts
  /\ \A i \in 1..Len(sends) : \A k \in 1..Len(sends[i].batch) :
       sends[i].batch[k] \in Posts
  /\ sock = "closed" => postBatch = <<>>

\* two posts went out in two batches, the second flushed by the close handler
C4_Witness ==
  /\ sock = "closed"
  /\ Len(queued) = 2
  /\ Len(sends) = 2
  /\ \A n \in Posts : HandedCount(n) = 1

\* C5: (K) once the cancellation signal is aborted, run never starts a
\* connection attempt again.
C5_NoAttemptAfterAbort ==
  [][aborted => ~(pc \notin {"connected", "catch"}
                  /\ pc' \in {"connected", "catch"})]_vars

\* the abort arrived outside a connection (in the close handler or in a
\* sleep) and run returned without a new attempt
C5_Witness ==
  /\ connector = "K"
  /\ aborted
  /\ pc = "done"
  /\ result = "disconnected"

\* the close handler's flush handed every queued post to the sink
AllHanded == postBatch = <<>> /\ \A n \in Posts : HandedCount(n) = 1

\* C6: (K, sink and store calls succeeding) when the signal is aborted while
\* a connection exists, run eventually returns with Cancelled; and when it
\* has, no post is left in the batch, no timer is armed, the batch the close
\* handler flushed has been accepted, and the close handler has written the
\* in-memory cursor, the position of the last message, to the store.
C6_CancelFlushesSavesReturns ==
  /\ (aborted /\ sock \in Live) ~> (pc = "done" /\ result = "cancelled")
  /\ [](pc = "done" /\ result = "cancelled" =>
          /\ AllHanded
          /\ ~batchTimer
          /\ closeWait # 0 => sends[closeWait].st = "ok"
          /\ closeWrote = currentCursor
          /\ lastPos # 0 => currentCursor = lastPos)

\* run returned after a cancellation whose close handler flushed a batch
C6_Witness ==
  /\ connector = "K"
  /\ pc = "done"
  /\ result = "cancelled"
  /\ closeWait # 0
  /\ closeWrote = currentCursor
  /\ lastPos # 0

\* connectAndProcess resolves in this step
Reports == pc \in {"closeFlush", "closeWait", "closeSave"}
             /\ pc' \in {"sleep", "done"}

\* C7: (K) when connectAndProcess reports, no batch send is in flight, and
\* the close handler starts its cursor save only when none is.
C7_NoSendInFlightAtReport ==
  /\ [][(connector = "K" /\ Reports) =>
          \A i \in 1..Len(sends) : sends[i].st # "inflight"]_vars
  /\ [](connector = "K" /\ pc = "closeSave" /\ closeWait = 0 =>
          \A i \in 1..Len(sends) : sends[i].st # "inflight")

\* C8: (H) the close handler reports only when every flushed batch has
\* been sent, unless its 5 seconds have elapsed.
C8_ReportsOnlyWhenDrained ==
  [][(connector = "H" /\ Reports) =>
       (waitExpired \/ \A i \in 1..Len(sends) : sends[i].st = "done")]_vars

C10_CursorNeverDecreases ==
  [][(nmsgs' = nmsgs + 1 /\ lastPos # 0) =>
       currentCursor' >= currentCursor]_vars

\* the step is a queuePost call (a post is passed to it)
Enqueue == Len(queued') = Len(queued) + 1

\* the step hands the open batch, with extra appended, to the sink as the
\* newest batch and leaves the open batch empty
FlushesWith(extra) ==
  /\ postBatch' = <<>>
  /\ Len(sends') = Len(sends) + 1
  /\ sends'[Len(sends')].batch = postBatch \o extra

\* the flush timer fires
TimerFires == TimerK \/ TimerH

\* C11: (K and H) the batch queue flushes on whichever trigger comes first.
\* After every queuePost the open batch holds fewer than BATCH_SIZE posts;
\* every batch handed to the sink holds 1..BATCH_SIZE posts; the enqueue
\* that brings the batch to BATCH_SIZE flushes it in that call; and a
\* non-empty open batch always has a timer armed, set no later than the
\* enqueue of its first post, whose firing flushes the batch.
C11_FlushOnFirstTrigger ==
  /\ [](Len(postBatch) < BATCH_SIZE)
  /\ [](\A i \in 1..Len(sends) :
          Len(sends[i].batch) >= 1 /\ Len(sends[i].batch) <= BATCH_SIZE)
  /\ [][(Enqueue /\ Len(postBatch) = BATCH_SIZE - 1) =>
          FlushesWith(<<Len(queued')>>)]_vars
  /\ [](postBatch # <<>> =>
          batchTimer /\ timerAt >= 1 /\ timerAt <= Head(postBatch))
  /\ [][(TimerFires /\ postBatch # <<>>) => FlushesWith(<<>>)]_vars

\* a batch below BATCH_SIZE went out when its timer fired, on an open socket
C11_Witness ==
  /\ sock = "open"
  /\ Len(sends) = 1
  /\ Len(sends[1].batch) < BATCH_SIZE
  /\ postBatch = <<>>
  /\ ~batchTimer

\* C12: (K and H) a flush timer is outstanding only while the open batch is
\* non-empty: after any flush, the size flush inside queuePost included, no
\* timer is armed until the next queuePost opens a new batch.
C12_TimerOnlyWithOpenBatch == batchTimer => postBatch # <<>>

\* a send the sink has not answered yet (H: nor all of its POSTs settled)
Pending(s) == s.st \in {"inflight", "waiting", "active"}

\* the message handler can take a message
CanReceive == pc = "connected" /\ sock = "open" /\ nmsgs < MaxMsgs

\* C13: (K and H) queuePost never waits on the sink.  The step that
\* enqueues a post ends the message handler, settles no send, and leaves a
\* batch it flushed still unanswered; and an open connection takes the next
\* message whatever sends are in flight.
C13_QueuePostNeverWaits ==
  /\ [][Enqueue =>
          /\ nmsgs' = nmsgs + 1
          /\ pc' = pc
          /\ Len(sends') >= Len(sends)
          /\ \A i \in 1..Len(sends') :
               IF i <= Len(sends) THEN sends'[i] = sends[i]
               ELSE Pending(sends'[i])]_vars
  /\ [](CanReceive => ENABLED (MessageK \/ MessageH))

\* a post was enqueued into a new batch while an earlier batch was in flight
C13_Witness ==
  /\ Len(sends) = 1
  /\ Pending(sends[1])
  /\ Len(sends[1].batch) = 1
  /\ Len(postBatch) = 1
  /\ Len(queued) = 2

\* the step in which a batch send fails: in K stream.send rejects; in H a
\* fetch of the batch answers not-ok or throws
SendFails ==
  \E i \in 1..Len(sends) :
    \/ sends[i].st = "inflight" /\ sends'[i].st = "failed"
    \/ /\ sends[i].st = "active"
       /\ sends'[i] # sends[i]
       /\ postsProcessed' = postsProcessed

\* C14: (K and H) a failed batch send is counted in the error statistics,
\* its posts are neither put back into the open batch nor handed to the sink
\* again, the socket and the cursor are untouched and run stays where it is.
C14_SendFailureCountedAndDropped ==
  [][SendFails =>
       /\ postsErrored' > postsErrored
       /\ postBatch' = postBatch
       /\ Len(sends') = Len(sends)
       /\ sock' = sock
       /\ currentCursor' = currentCursor
       /\ pc' = pc]_vars

\* the sends whose POSTs are being made
ActiveSends == {i \in 1..Len(sends) : sends[i].st = "active"}

\* the step flushes a batch: a new send is handed to sendBatch
Flushes == Len(sends') = Len(sends) + 1

\* C15: (H) the number of batches being sent is activeRequests and stays
\* within 0..MAX_CONCURRENT_REQUESTS; a batch flushed while the cap is
\* reached waits and starts no POST; and a waiting batch is eventually sent.
C15_ConcurrencyCap ==
  /\ [](activeRequests >= 0 /\ activeRequests <= MAX_CONCURRENT_REQUESTS)
  /\ [](activeRequests = Cardinality(ActiveSends))
  /\ [][(Flushes /\ activeRequests >= MAX_CONCURRENT_REQUESTS) =>
          /\ sends'[Len(sends')].st = "waiting"
          /\ activeRequests' = activeRequests]_vars
  /\ \A i \in 1..MaxMsgs :
       (Len(sends) >= i /\ sends[i].st = "waiting")
         ~> (Len(sends) >= i /\ sends[i].st = "done")

\* a batch is waiting behind the cap while another is being sent
C15_Witness ==
  /\ connector = "H"
  /\ Len(sends) = 2
  /\ sends[1].st = "active"
  /\ sends[2].st = "waiting"
  /\ activeRequests = MAX_CONCURRENT_REQUESTS

\* a cursor-store write fails: a periodic save, or the close handler's
SaveFails == SaveDone({FALSE}) \/ CloseSaved({FALSE})

\* C16: (K) a failed cursor save is not fatal.  The failing step leaves the
\* in-memory cursor, the socket, the batch and the sends as they are; after
\* a periodic save run stays where it is, and the close handler resolves
\* exactly as after a successful save; the in-memory cursor remains the
\* position of the last message, and the next reconnect requests it.
C16_SaveFailureNotFatal ==
  /\ [][SaveFails =>
          /\ currentCursor' = currentCursor
          /\ sock' = sock
          /\ postBatch' = postBatch
          /\ sends' = sends]_vars
  /\ [][SaveDone({FALSE}) => pc' = pc]_vars
  /\ [][(pc = "closeSave" /\ pc' # pc) =>
          /\ result' = Resolution(wasCancelled)
          /\ pc' = AfterResult(result').pc
          /\ delay' = AfterResult(result').delay]_vars
  /\ [](lastPos # 0 => currentCursor = lastPos)
  /\ [][(Reconnect /\ currentCursor > 0) =>
          url' = <<"base", currentCursor>>]_vars

\* the close handler's save failed, and the reconnect requested the
\* in-memory cursor, which the store does not hold
C16_Witness ==
  /\ connector = "K"
  /\ result = "disconnected"
  /\ pc = "connected"
  /\ lastPos # 0
  /\ closeWrote = 0
  /\ saves = <<>>
  /\ store # NumToString(currentCursor)
  /\ url = <<"base", currentCursor>>

\* C17: parseJetStreamMessage yields a post exactly for a commit that
\* creates an app.bsky.feed.post record with non-empty text; the post has
\* the id at://<did>/app.bsky.feed.post/<rkey>, the did as author, the
\* record's text, and the feed's time_us (not the record's createdAt) as
\* its timestamp.
C17_ParseYieldsPostFromFeedTime ==
  stage = "done" =>
    /\ output # <<>> <=>
         /\ input.json
         /\ input.kind = "commit"
         /\ input.operation = "create"
         /\ input.collection = POST_COLLECTION
         /\ input.text # ""
    /\ output # <<>> =>
         output[1] =
           [postId |-> <<"at://", input.did, "/app.bsky.feed.post/",
                         input.rkey>>,
            text |-> input.text,
            createdAt |-> input.time_us \div 1000,
            authorDid |-> input.did]

\* the frames that are malformed: not JSON, or a post creation without text
MalformedMessages ==
  {m \in Messages :
     \/ ~m.json
     \/ /\ m.kind = "commit"
        /\ m.operation = "create"
        /\ m.collection = POST_COLLECTION
        /\ m.text = ""}

\* the message handler runs on a malformed frame
MalformedHandled ==
  \E m \in MalformedMessages : MessageKOf(m) \/ MessageHOf(m)

\* C18: a malformed inbound message is counted in the error statistics and
\* discarded: nothing is enqueued or handed to the sink, the connection and
\* run stay as they are, and the handler can take the next message.
C18_MalformedCountedAndDiscarded ==
  [][MalformedHandled =>
       /\ postsErrored' > postsErrored
       /\ queued' = queued
       /\ postBatch' = postBatch
       /\ sends' = sends
       /\ sock' = sock
       /\ pc' = pc]_vars

\* ---------------------------------------------------------------------
\* Word extraction and the aggregation transform (bluesky-transforms.ts).
\* A text is a sequence of characters, each a one-character string.

\* STOP_WORDS
STOP_WORDS ==
  {
   "a", "an", "the", "and", "or", "but", "nor", "so", "yet", "in", "on", "at",
   "to", "for", "of", "with", "by", "from", "up", "down", "out", "off",
   "over", "under", "into", "through", "about", "between", "after", "before",
   "is", "are", "was", "were", "be", "been", "being", "have", "has", "had",
   "do", "does", "did", "will", "would", "could", "should", "may", "might",
   "must", "can", "get", "got", "go", "going", "went", "come", "came", "make",
   "made", "take", "took", "i", "me", "my", "mine", "myself", "you", "your",
   "yours", "yourself", "he", "him", "his", "himself", "she", "her", "hers",
   "herself", "it", "its", "itself", "we", "us", "our", "ours", "ourselves",
   "they", "them", "their", "theirs", "themselves", "this", "that", "these",
   "those", "what", "which", "who", "whom", "whose", "when", "where", "why",
   "how", "if", "then", "else", "than", "as", "just", "also", "only", "even",
   "more", "most", "less", "very", "too", "all", "any", "some", "no", "not",
   "yes", "now", "here", "there", "still", "well", "back", "way", "like",
   "know", "think", "see", "want", "say", "said", "really", "much", "one",
   "two", "new", "good", "first", "last", "https", "http", "www", "com"
  }

MIN_WORD_LENGTH == 3

\* the bucket width of truncateToInterval, in seconds
INTERVAL_SECONDS == 10

LowerLetters ==
  <<
    "a", "b", "c", "d", "e", "f", "g", "h", "i", "j", "k", "l", "m", "n", "o",
    "p", "q", "r", "s", "t", "u", "v", "w", "x", "y", "z"
  >>

UpperLetters ==
  <<
    "A", "B", "C", "D", "E", "F", "G", "H", "I", "J", "K", "L", "M", "N", "O",
    "P", "Q", "R", "S", "T", "U", "V", "W", "X", "Y", "Z"
  >>

\* \s of the regular expressions
Whitespace == {" ", "\t", "\n", "\r"}

\* \w of the regular expressions
WordChars ==
  {LowerLetters[i] : i \in 1..26} \cup {UpperLetters[i] : i \in 1..26}
    \cup {Digits[i] : i \in 1..10} \cup {"_"}

\* String.prototype.toLowerCase on one character
LowerChar(c) ==
  IF \E i \in 1..26 : UpperLetters[i] = c
  THEN LowerLetters[CHOOSE i \in 1..26 : UpperLetters[i] = c]
  ELSE c

\* String.prototype.toLowerCase
toLowerCase(s) == [i \in 1..Len(s) |-> LowerChar(s[i])]

\* the string a sequence of characters spells
RECURSIVE Str(_)
Str(s) == IF s = <<>> THEN "" ELSE s[1] \o Str(Tail(s))

\* the last index of the run of characters of class (or, with inside
\* FALSE, of characters outside it) that starts at i
RunEnd(s, i, class, inside) ==
  CHOOSE j \in i..Len(s) :
    /\ \A k \in i..j : (s[k] \in class) = inside
    /\ j = Len(s) \/ (s[j + 1] \in class) # inside

\* the literal lit (in lower case) stands at i, whatever the case (flag i)
LiteralAt(s, i, lit) ==
  /\ i + Len(lit) - 1 <= Len(s)
  /\ \A k \in 1..Len(lit) : LowerChar(s[i + k - 1]) = lit[k]

\* the last index of the match of /https?:\/\/\S+/i that starts at i, or 0
UrlEnd(s, i) ==
  LET long == <<"h", "t", "t", "p", "s", ":", "/", "/">>
      short == <<"h", "t", "t", "p", ":", "/", "/">>
      rest == IF LiteralAt(s, i, long) THEN i + Len(long)
              ELSE IF LiteralAt(s, i, short) THEN i + Len(short)
              ELSE 0
  IN IF rest # 0 /\ rest <= Len(s) /\ s[rest] \notin Whitespace
     THEN RunEnd(s, rest, Whitespace, FALSE)
     ELSE 0

\* the last index of the match of /@[\w.]+/ that starts at i, or 0
MentionEnd(s, i) ==
  IF s[i] = "@" /\ i + 1 <= Len(s) /\ s[i + 1] \in WordChars \cup {"."}
  THEN RunEnd(s, i + 1, WordChars \cup {"."}, TRUE)
  ELSE 0

\* text.replace(/https?:\/\/\S+/gi, ""), from index i on
RECURSIVE withoutUrlsFrom(_, _)
withoutUrlsFrom(s, i) ==
  IF i > Len(s) THEN <<>>
  ELSE IF UrlEnd(s, i) # 0 THEN withoutUrlsFrom(s, UrlEnd(s, i) + 1)
  ELSE <<s[i]>> \o withoutUrlsFrom(s, i + 1)

withoutUrls(text) == withoutUrlsFrom(text, 1)

\* withoutUrls.replace(/@[\w.]+/g, ""), from index i on
RECURSIVE withoutMentionsFrom(_, _)
withoutMentionsFrom(s, i) ==
  IF i > Len(s) THEN <<>>
  ELSE IF MentionEnd(s, i) # 0
  THEN withoutMentionsFrom(s, MentionEnd(s, i) + 1)
  ELSE <<s[i]>> \o withoutMentionsFrom(s, i + 1)

withoutMentions(s) == withoutMentionsFrom(s, 1)

\* .replace(/[^\w\s#]/g, " ")
replacePunctuation(s) ==
  [i \in 1..Len(s) |->
     IF s[i] \in WordChars \cup Whitespace \cup {"#"} THEN s[i] ELSE " "]

\* .split(/\s+/), from index i on with the piece cur begun: a separator at
\* either end leaves an empty piece there, as String.prototype.split does
RECURSIVE splitFrom(_, _, _)
splitFrom(s, i, cur) ==
  IF i > Len(s) THEN <<cur>>
  ELSE IF s[i] \in Whitespace
  THEN <<cur>> \o splitFrom(s, RunEnd(s, i, Whitespace, TRUE) + 1, <<>>)
  ELSE splitFrom(s, i + 1, Append(cur, s[i]))

split(s) == splitFrom(s, 1, <<>>)

\* word.replace(/^#+/, "")
RECURSIVE stripHash(_)
stripHash(word) ==
  IF word # <<>> /\ word[1] = "#" THEN stripHash(Tail(word)) ELSE word

\* /^\d+$/.test(word)
PureNumber(word) == word # <<>> /\ \A i \in 1..Len(word) : IsDigit(word[i])

\* the three filters of extractWords, in their order
LongEnough(word) == Len(word) >= MIN_WORD_LENGTH
NotStopWord(word) == Str(word) \notin STOP_WORDS
NotPureNumber(word) == ~PureNumber(word)

\* a faulty extractWords: a word is kept only where it first occurs
extractWordsUnique(text) ==
  LET pieces == split(replacePunctuation(toLowerCase(
                  withoutMentions(withoutUrls(text)))))
      stripped == [i \in 1..Len(pieces) |-> stripHash(pieces[i])]
      words == SelectSeq(SelectSeq(SelectSeq(stripped, LongEnough),
                                   NotStopWord), NotPureNumber)
      first == SelectSeq([i \in 1..Len(words) |-> i],
                 LAMBDA i : \A j \in 1..(i - 1) : words[j] # words[i])
  IN [n \in 1..Len(first) |-> words[first[n]]]

\* extractWords
extractWords(text) ==
  LET pieces == split(replacePunctuation(toLowerCase(
                  withoutMentions(withoutUrls(text)))))
      stripped == [i \in 1..Len(pieces) |-> stripHash(pieces[i])]
  IN SelectSeq(SelectSeq(SelectSeq(stripped, LongEnough), NotStopWord),
               NotPureNumber)

\* The Date getters and the Date constructor of truncateToInterval work in
\* the host's local time.  A Date is its epoch milliseconds; the zone is
\* before milliseconds ahead of UTC until the instant at and after
\* milliseconds from then on.

\* a zone that leaves summer time one hour after the epoch: the local hour
\* from 02:00 to 03:00 passes twice
FallBackZone == [before |-> 7200000, after |-> 3600000, at |-> 3600000]

Zones == {UtcZone, FallBackZone}

\* the offset of local time at the instant t
LocalTZA(t) == IF t < zone.at THEN zone.before ELSE zone.after

\* the local time of the instant t
LocalTime(t) == t + LocalTZA(t)

\* the instant of a local time, as new Date(year, ..., ms) takes it: a local
\* time that passes twice, or never, is read with the offset that held
\* before the change
UTCOf(local) ==
  IF local - zone.before < zone.at THEN local - zone.before
  ELSE IF local - zone.after >= zone.at THEN local - zone.after
  ELSE local - zone.before

\* date.getSeconds()
getSeconds(date) == (LocalTime(date) \div 1000) % 60

\* truncateToInterval: the Date built from date's local fields down to the
\* minute, the seconds floored to the interval, zero milliseconds
truncateToInterval(date) ==
  LET seconds == (getSeconds(date) \div INTERVAL_SECONDS) * INTERVAL_SECONDS
      minute == LocalTime(date) - (LocalTime(date) % 60000)
  IN UTCOf(minute + seconds * 1000)

\* wordCounts.set(word, (wordCounts.get(word) || 0) + 1) on a Map kept as
\* the sequence of its entries in insertion order
MapIncrement(wordCounts, word) ==
  IF \E i \in 1..Len(wordCounts) : wordCounts[i].word = word
  THEN LET i == CHOOSE k \in 1..Len(wordCounts) : wordCounts[k].word = word
       IN [wordCounts EXCEPT ![i].count = @ + 1]
  ELSE Append(wordCounts, [word |-> word, count |-> 1])

\* for (const word of words) wordCounts.set(...)
RECURSIVE CountWords(_, _)
CountWords(words, wordCounts) ==
  IF words = <<>> THEN wordCounts
  ELSE CountWords(Tail(words), MapIncrement(wordCounts, Head(words)))

\* a faulty transform: one record for every token of the list
transformPerToken(post) ==
  LET words == extractWords(post.text)
  IN [i \in 1..Len(words) |->
        [intervalTimestamp |-> truncateToInterval(post.createdAt),
         word |-> words[i],
         count |-> 1]]

\* the transform from BlueskyPost to WordOccurrence records
transform(post) ==
  LET words == extractWords(post.text)
  IN IF Len(words) = 0 THEN <<>>
     ELSE LET interval == truncateToInterval(post.createdAt)
              wordCounts == CountWords(words, <<>>)
          IN [i \in 1..Len(wordCounts) |->
                [intervalTimestamp |-> interval,
                 word |-> wordCounts[i].word,
                 count |-> wordCounts[i].count]]

\* the tokens the texts of the posts are made of
Tokens ==
  {<<"c", "a", "t">>,
   <<"C", "a", "t", "!">>,
   <<"#", "d", "o", "g">>,
   <<"t", "h", "e">>,
   <<"h", "t", "t", "p", ":", "/", "/", "x", ".", "c", "o">>}

\* the tokens of the posts of a run that fills the tables
TrendTokens == {<<"c", "a", "t">>, <<"d", "o", "g">>}

\* the tokens joined by single spaces
RECURSIVE Join(_)
Join(tokens) ==
  IF tokens = <<>> THEN <<>>
  ELSE IF Len(tokens) = 1 THEN tokens[1]
  ELSE tokens[1] \o <<" ">> \o Join(Tail(tokens))

\* the texts of at most n of the tokens
Texts(tokens, n) ==
  {Join(ts) : ts \in UNION {[1..k -> tokens] : k \in 0..n}}

\* createdAt values in milliseconds: two in one interval, one in the next,
\* one an hour later
CreatedAtVals == {3500, 9999, 12000, 3603500}

\* the posts given to the transform alone
TransformPosts ==
  [text : Texts(Tokens, MaxTokens), createdAt : CreatedAtVals]

\* the posts of a run that fills the tables
TrendPosts ==
  [text : Texts(TrendTokens, MaxEvents), createdAt : CreatedAtVals]

\* toStartOfInterval(intervalTimestamp, INTERVAL 10 SECOND)
toStartOfInterval(timestamp) ==
  timestamp - (timestamp % (INTERVAL_SECONDS * 1000))

\* the GROUP BY key of a WordOccurrence record in the view's SELECT
GroupKey(record) ==
  [word |-> record.word, interval |-> toStartOfInterval(record.intervalTimestamp)]

RECURSIVE SumCounts(_)
SumCounts(records) ==
  IF records = <<>> THEN 0 ELSE Head(records).count + SumCounts(Tail(records))

\* the records of rows that have the key
WithKey(rows, key) == SelectSeq(rows, LAMBDA r : GroupKey(r) = key)

\* the view's SELECT over one inserted block: one row for each key of the
\* block, in the order the keys first occur, with the sum of its counts
selectStatement(block) ==
  LET first == SelectSeq([i \in 1..Len(block) |-> i],
                 LAMBDA i : \A j \in 1..(i - 1) :
                              GroupKey(block[j]) # GroupKey(block[i]))
  IN [n \in 1..Len(first) |->
        [word |-> block[first[n]].word,
         interval |-> GroupKey(block[first[n]]).interval,
         totalCount |-> SumCounts(WithKey(block, GroupKey(block[first[n]])))]]

\* the stream delivers a post to the transform (a redelivery is a post
\* delivered before), once the stage named after has been reached
DeliverPost(posts, after) ==
  /\ stage \in {"idle", after}
  /\ delivered < MaxEvents
  /\ input' \in posts
  /\ output' = <<>>
  /\ stage' = "received"
  /\ delivered' = delivered + 1
  /\ UNCHANGED <<connVars, table, trends, topic, zone, apiVars>>

\* the transform runs on the post
Transform ==
  /\ stage = "received"
  /\ output' = transform(input)
  /\ stage' = "done"
  /\ UNCHANGED <<connVars, input, table, trends, topic, delivered, zone, apiVars>>

\* the returned records are written to the WordOccurrence stream
Publish ==
  /\ stage = "done"
  /\ topic' = topic \o output
  /\ stage' = "published"
  /\ UNCHANGED <<connVars, input, output, table, trends, delivered, zone, apiVars>>

\* the stream is synced to the WordOccurrence table: the next n records
\* are inserted as one block, and the materialized view appends the rows
\* its SELECT yields over that block to WordTrends
InsertBlock ==
  \E n \in 1..Len(topic) :
    LET block == SubSeq(topic, 1, n)
    IN /\ table' = table \o block
       /\ trends' = trends \o selectStatement(block)
       /\ topic' = SubSeq(topic, n + 1, Len(topic))
       /\ UNCHANGED <<connVars, stage, input, output, delivered, zone, apiVars>>

InitPipeline == connector = "A" /\ InitState /\ zone \in Zones

\* the transform alone, on one post
NextTransform == DeliverPost(TransformPosts, "idle") \/ Transform

SpecTransform == InitPipeline /\ [][NextTransform]_vars

\* the pipeline from the post stream to the WordTrends table
NextTrends ==
  \/ DeliverPost(TrendPosts, "published")
  \/ Transform
  \/ Publish
  \/ InsertBlock

SpecTrends == InitPipeline /\ [][NextTrends]_vars

\* C19: for every post the transform emits exactly one WordOccurrence for
\* each distinct extracted token: the emitted words are pairwise distinct
\* and are the tokens of the extracted list, each count is the number of
\* times the token occurs in the list, the counts sum to the length of the
\* list, every record carries the interval truncateToInterval gives for
\* the post's createdAt, and an empty list gives no record.
C19_OneRecordPerDistinctToken ==
  stage = "done" =>
    LET words == extractWords(input.text)
    IN /\ \A i, j \in DOMAIN output :
            i # j => output[i].word # output[j].word
       /\ {output[i].word : i \in DOMAIN output} =
            {words[k] : k \in DOMAIN words}
       /\ \A i \in DOMAIN output :
            /\ output[i].count =
                 Cardinality({k \in DOMAIN words : words[k] = output[i].word})
            /\ output[i].intervalTimestamp =
                 truncateToInterval(input.createdAt)
       /\ SumCounts(output) = Len(words)
       /\ words = <<>> => output = <<>>

\* a post with a token that occurs twice and another token was transformed
C19_Witness ==
  /\ stage = "done"
  /\ Len(output) >= 2
  /\ \E i \in DOMAIN output : output[i].count >= 2

\* the key of a WordTrends row
TrendKey(row) == [word |-> row.word, interval |-> row.interval]

\* the WordTrends rows that have the key
TrendRows(key) == SelectSeq(trends, LAMBDA r : TrendKey(r) = key)

\* C20: WordTrends holds one row for each key (word, interval) of the
\* WordOccurrence table and no other row, and the row's total is the sum of
\* the counts of all WordOccurrence records with that key, whatever the
\* order of the posts and also when a post is delivered again.
C20_OneRowPerKeyWithSum ==
  /\ \A i \in DOMAIN table :
       /\ Len(TrendRows(GroupKey(table[i]))) = 1
       /\ TrendRows(GroupKey(table[i]))[1].totalCount =
            SumCounts(WithKey(table, GroupKey(table[i])))
  /\ \A i \in DOMAIN trends :
       \E j \in DOMAIN table : GroupKey(table[j]) = TrendKey(trends[i])

\* ------------------------------------------- truncateToInterval alone

\* the timestamps given to truncateToInterval, in milliseconds: around the
\* hours before and after the zone's change, at the edges of an interval
\* and of a minute
Timestamps ==
  {h * 3600000 + m * 60000 + ms :
     h \in 0..2, m \in {0, 59}, ms \in {0, 1, 9999, 10000, 30500, 59999}}

\* a timestamp is given to truncateToInterval
TakeTimestamp ==
  /\ stage = "idle"
  /\ input' \in Timestamps
  /\ stage' = "received"
  /\ UNCHANGED <<connVars, output, table, trends, topic, delivered, zone, apiVars>>

\* truncateToInterval(t)
Truncate ==
  /\ stage = "received"
  /\ output' = <<truncateToInterval(input)>>
  /\ stage' = "done"
  /\ UNCHANGED <<connVars, input, table, trends, topic, delivered, zone, apiVars>>

\* truncateToInterval applied to its own result
TruncateAgain ==
  /\ stage = "done"
  /\ output' = Append(output, truncateToInterval(output[1]))
  /\ stage' = "again"
  /\ UNCHANGED <<connVars, input, table, trends, topic, delivered, zone, apiVars>>

NextTruncate == TakeTimestamp \/ Truncate \/ TruncateAgain

SpecTruncate == InitPipeline /\ [][NextTruncate]_vars

\* C21: truncateToInterval is idempotent, never moves forward, returns a
\* whole multiple of 10 seconds with zero milliseconds, and lies less than
\* 10 seconds before its argument.
C21_TruncateBackLessThanInterval ==
  /\ stage \in {"done", "again"} =>
       /\ output[1] <= input
       /\ output[1] % (INTERVAL_SECONDS * 1000) = 0
       /\ input - output[1] < INTERVAL_SECONDS * 1000
  /\ stage = "again" => output[2] = output[1]

\* ------------------------------------------------- extractWords alone

\* tokens that are words, hashtags, numbers or stop words
WordTokens ==
  {<<"c", "a", "t">>,
   <<"C", "a", "t", "!">>,
   <<"#", "d", "o", "g">>,
   <<"#", "A", "I">>,
   <<"t", "h", "e">>,
   <<"4", "2">>}

\* tokens that are URLs: scheme://non-whitespace
UrlTokens ==
  {<<"h", "t", "t", "p", "s", ":", "/", "/", "x", ".", "c", "o", "m">>,
   <<"f", "t", "p", ":", "/", "/", "x", ".", "o", "r", "g">>}

\* tokens that are @-mentions of a handle
MentionTokens ==
  {<<"@", "b", "o", ".", "b">>,
   <<"@", "j", "o", "-", "a", "n", "n", ".", "b", "s", "k", "y">>}

ExtractTokens == WordTokens \cup UrlTokens \cup MentionTokens

\* the tokens of "Check out https://x.com #AI is amazing!"
ExampleTokens ==
  <<<<"C", "h", "e", "c", "k">>,
    <<"o", "u", "t">>,
    <<"h", "t", "t", "p", "s", ":", "/", "/", "x", ".", "c", "o", "m">>,
    <<"#", "A", "I">>,
    <<"i", "s">>,
    <<"a", "m", "a", "z", "i", "n", "g", "!">>>>

\* the texts given to extractWords, as the sequences of their tokens
TokenLists ==
  UNION {[1..k -> ExtractTokens] : k \in 0..MaxTokens} \cup {ExampleTokens}

\* a text is given to extractWords
TakeText ==
  /\ stage = "idle"
  /\ input' \in TokenLists
  /\ stage' = "received"
  /\ UNCHANGED <<connVars, output, table, trends, topic, delivered, zone, apiVars>>

\* extractWords(text)
Extract ==
  /\ stage = "received"
  /\ output' = extractWords(Join(input))
  /\ stage' = "done"
  /\ UNCHANGED <<connVars, input, table, trends, topic, delivered, zone, apiVars>>

NextExtract == TakeText \/ Extract

SpecExtract == InitPipeline /\ [][NextExtract]_vars

\* the words of the sequences in order
RECURSIVE Flatten(_)
Flatten(lists) ==
  IF lists = <<>> THEN <<>> ELSE Head(lists) \o Flatten(Tail(lists))

\* C22: every token extractWords returns is lowercase, does not start with
\* '#', has at least 3 characters, is not a stop word and is not purely
\* numeric; URLs and @-mentions contribute no token (the result is that of
\* the text without them); and the example text gives "check", "amazing".
C22_TokensNormalizedNoUrlNoMention ==
  stage = "done" =>
    /\ \A i \in DOMAIN output :
         /\ \A k \in DOMAIN output[i] :
              \A u \in 1..26 : output[i][k] # UpperLetters[u]
         /\ output[i][1] # "#"
         /\ Len(output[i]) >= 3
         /\ Str(output[i]) \notin STOP_WORDS
         /\ \E k \in DOMAIN output[i] : ~IsDigit(output[i][k])
    /\ output =
         extractWords(Join(SelectSeq(input,
           LAMBDA token : token \notin UrlTokens \cup MentionTokens)))
    /\ input = ExampleTokens =>
         output = <<<<"c", "h", "e", "c", "k">>, <<"a", "m", "a", "z", "i", "n", "g">>>>

\* C23: extractWords does not deduplicate and keeps the order of the text:
\* its result is, token of the text after token, the words that token
\* gives on its own, so a surviving token that occurs k times in the text
\* occurs k times in the result.
C23_NoDeduplicationOrderKept ==
  stage = "done" =>
    output = Flatten([i \in 1..Len(input) |-> extractWords(input[i])])

\* a text in which a surviving token occurs twice, around another one, was
\* extracted
C23_Witness ==
  /\ stage = "done"
  /\ \E i, j, k \in DOMAIN output :
       i < j /\ j < k /\ output[i] = output[k] /\ output[j] # output[i]

\* ---------------------------------------------------------------------
\* The Trend Query API (app/apis/trends.ts): the routes search, top,
\* compare and stats over the WordTrends table, with MooseCache in front.
\* A handler runs from one await to the next without interleaving; the
\* awaits that touch shared state are cache.get, client.query.execute and
\* cache.set.  Dates are epoch milliseconds.

\* a query parameter that is missing or empty (for a number: not numeric)
Absent == -1

\* the cache lifetimes, in seconds
SEARCH_TTL == 30
TOP_TTL == 15
COMPARE_TTL == 30
STATS_TTL == 60

\* the default window of search and compare, in milliseconds
DEFAULT_WINDOW_MS == 3600000
\* the defaults of top
DEFAULT_MINUTES == 5
DEFAULT_LIMIT == 20
\* the most words compare accepts
MAX_WORDS == 10

Cat == <<"c", "a", "t">>
Dog == <<"d", "o", "g">>

\* the rows the pipeline inserts into WordTrends while the API runs, in
\* this order: a row at the start of the first default window, two rows
\* for one key (two inserted blocks, see InsertBlock), a second word
StoreRows ==
  <<[word |-> Cat, interval |-> 3600000, totalCount |-> 1],
    [word |-> Cat, interval |-> 7190000, totalCount |-> 2],
    [word |-> Cat, interval |-> 7190000, totalCount |-> 1],
    [word |-> Dog, interval |-> 7190000, totalCount |-> 4]>>

\* formatDateForCH: toISOString() cut after the seconds
formatDateForCH(date) == date - (date % 1000)

\* parseInt(value) || fallback
parseIntOr(value, fallback) ==
  IF value = Absent \/ value = 0 THEN fallback ELSE value

\* wordsParam.split(","), from index i on with the piece cur begun
RECURSIVE splitCommaFrom(_, _, _)
splitCommaFrom(s, i, cur) ==
  IF i > Len(s) THEN <<cur>>
  ELSE IF s[i] = "," THEN <<cur>> \o splitCommaFrom(s, i + 1, <<>>)
  ELSE splitCommaFrom(s, i + 1, Append(cur, s[i]))

\* String.prototype.trim
RECURSIVE trim(_)
trim(s) ==
  IF s = <<>> THEN s
  ELSE IF s[1] \in Whitespace THEN trim(Tail(s))
  ELSE IF s[Len(s)] \in Whitespace THEN trim(SubSeq(s, 1, Len(s) - 1))
  ELSE s

\* the words of compare: split, trimmed, lower-cased, the empty ones dropped
compareWords(wordsParam) ==
  LET pieces == splitCommaFrom(wordsParam, 1, <<>>)
      mapped == [i \in 1..Len(pieces) |-> toLowerCase(trim(pieces[i]))]
  IN SelectSeq(mapped, LAMBDA w : Len(w) > 0)

\* words.join(",")
RECURSIVE joinComma(_)
joinComma(words) ==
  IF words = <<>> THEN <<>>
  ELSE IF Len(words) = 1 THEN words[1]
  ELSE words[1] \o <<",">> \o joinComma(Tail(words))

\* the orders ORDER BY interval ASC can return rows in: every arrangement
\* in which no row stands before one of an earlier interval
OrderByInterval(rows) ==
  LET n == Len(rows)
      perms == {p \in [1..n -> 1..n] : \A i, j \in 1..n : i # j => p[i] # p[j]}
  IN {[i \in 1..n |-> rows[p[i]]] :
        p \in {q \in perms :
                 \A i, j \in 1..n :
                   i < j => rows[q[j]].interval >= rows[q[i]].interval}}

RECURSIVE SumTotals(_)
SumTotals(rows) ==
  IF rows = <<>> THEN 0 ELSE Head(rows).totalCount + SumTotals(Tail(rows))

\* the query of search and of compare for one word: what it can return
wordQuery(trendRows, word, from, to) ==
  LET hits == SelectSeq(trendRows, LAMBDA r :
                /\ r.word = word
                /\ r.interval >= formatDateForCH(from)
                /\ r.interval <= formatDateForCH(to))
      data == [i \in 1..Len(hits) |->
                 [interval |-> hits[i].interval, count |-> hits[i].totalCount]]
  IN OrderByInterval(data)

\* the query of top: what it can return
topQuery(trendRows, cutoff, limit) ==
  LET hits == SelectSeq(trendRows, LAMBDA r : r.interval >= formatDateForCH(cutoff))
      words == {hits[i].word : i \in 1..Len(hits)}
      groups == {[word |-> w,
                  total |-> SumTotals(SelectSeq(hits, LAMBDA r : r.word = w))] :
                   w \in words}
      n == Cardinality(groups)
      seqs == {s \in [1..n -> groups] :
                 /\ \A i, j \in 1..n : i # j => s[i] # s[j]
                 /\ \A i, j \in 1..n : i < j => s[i].total >= s[j].total}
  IN {SubSeq(s, 1, IF limit < n THEN limit ELSE n) : s \in seqs}

\* the query of stats: the one row it returns
statsQuery(trendRows) ==
  LET intervals == {trendRows[i].interval : i \in 1..Len(trendRows)}
  IN [uniqueWords |-> Cardinality({trendRows[i].word : i \in 1..Len(trendRows)}),
      totalOccurrences |-> SumTotals(trendRows),
      earliestData |-> IF trendRows = <<>> THEN 0
                       ELSE CHOOSE x \in intervals : \A y \in intervals : x <= y,
      latestData |-> IF trendRows = <<>> THEN 0
                     ELSE CHOOSE x \in intervals : \A y \in intervals : x >= y]

\* { ...a, ...b }
Spread(a, b) ==
  [f \in DOMAIN a \cup DOMAIN b |-> IF f \in DOMAIN b THEN b[f] ELSE a[f]]

\* the requests the API is sent: the query parameters of each route
SearchRequests ==
  [route : {"search"}, word : {<<>>, <<"C", "a", "t">>, Dog},
   window : {<<Absent, Absent>>, <<3600500, 7200000>>}]

TopRequests ==
  [route : {"top"}, minutes : {Absent, 1}, limit : {Absent, 0, 1}]

\* values of compare's words parameter: separators and whitespace only,
\* two words, ten words, eleven words
OnlySeparators == <<" ", ",", " ">>
TwoWords == <<"C", "a", "t", ",", " ", "d", "o", "g">>
TenWords ==
  <<"a", ",", "b", ",", "c", ",", "d", ",", "e", ",", "f", ",", "g", ",",
    "h", ",", "i", ",", "j">>
ElevenWords ==
  <<"a", ",", "b", ",", "c", ",", "d", ",", "e", ",", "f", ",", "g", ",",
    "h", ",", "i", ",", "j", ",", "k">>

CompareRequests ==
  [route : {"compare"},
   words : {<<>>, OnlySeparators, TwoWords, TenWords, ElevenWords},
   window : {<<Absent, Absent>>, <<3600500, 7200000>>}]

StatsRequests == [route : {"stats"}]

Requests ==
  SearchRequests \cup TopRequests \cup CompareRequests \cup StatsRequests

\* the handler's locals at its start, with the query it was sent; gets and
\* queries record the cache
\* reads and store queries it has run, wrote whether it has written the
\* cache, fresh the response that wrote the cache entry it answered from
NewRequest(q) ==
  [pc |-> "get", route |-> q.route, query |-> q, word |-> <<>>,
   words |-> <<>>,
   from |-> 0, to |-> 0, minutes |-> 0, limit |-> 0, key |-> <<>>,
   cutoff |-> 0, idx |-> 1, results |-> <<>>, data |-> <<>>,
   gets |-> 0, queries |-> 0, wrote |-> FALSE, fresh |-> <<>>,
   status |-> 0, body |-> <<>>]

\* res.status(status).json(body): the handler is done
Reply(r, status, body) ==
  [r EXCEPT !.pc = "sent", !.status = status, !.body = body]

\* a faulty catch block: the response hides the underlying message
FailureGeneric(r, message) ==
  Reply(r, 500, [success |-> FALSE, error |-> "Internal Server Error"])

\* the catch block's response
Failure(r, message) ==
  Reply(r, 500, [success |-> FALSE, error |-> message])

\* from and to of search and compare
WindowFrom(q) ==
  IF q.window[1] # Absent THEN q.window[1] ELSE clock - DEFAULT_WINDOW_MS

WindowTo(q) == IF q.window[2] # Absent THEN q.window[2] ELSE clock

\* app.get("/search") up to its first await on the cache
search(q) ==
  LET word == toLowerCase(q.word)
  IN IF word = <<>>
     THEN Reply(NewRequest(q), 400, [error |-> "word parameter is required"])
     ELSE [NewRequest(q) EXCEPT
             !.word = word, !.from = WindowFrom(q), !.to = WindowTo(q),
             !.key = <<"trends:search", word, WindowFrom(q), WindowTo(q)>>]

\* app.get("/top") up to its first await on the cache
top(q) ==
  LET minutes == parseIntOr(q.minutes, DEFAULT_MINUTES)
      limit == parseIntOr(q.limit, DEFAULT_LIMIT)
  IN [NewRequest(q) EXCEPT !.minutes = minutes, !.limit = limit,
                           !.key = <<"trends:top", minutes, limit>>]

\* a faulty compare: ten words are too many
compareTooStrict(q) ==
  LET words == compareWords(q.words)
  IN IF q.words = <<>> \/ Len(words) = 0 \/ Len(words) >= MAX_WORDS
     THEN Reply(NewRequest(q), 400, [error |-> "Maximum 10 words allowed"])
     ELSE [NewRequest(q) EXCEPT
             !.words = words, !.from = WindowFrom(q), !.to = WindowTo(q),
             !.key = <<"trends:compare", joinComma(words), WindowFrom(q),
                       WindowTo(q)>>]

\* app.get("/compare") up to its first await on the cache
compare(q) ==
  LET words == compareWords(q.words)
  IN IF q.words = <<>>
     THEN Reply(NewRequest(q), 400, [error |-> "words parameter is required"])
     ELSE IF Len(words) = 0
     THEN Reply(NewRequest(q), 400, [error |-> "At least one word is required"])
     ELSE IF Len(words) > MAX_WORDS
     THEN Reply(NewRequest(q), 400, [error |-> "Maximum 10 words allowed"])
     ELSE [NewRequest(q) EXCEPT
             !.words = words, !.from = WindowFrom(q), !.to = WindowTo(q),
             !.key = <<"trends:compare", joinComma(words), WindowFrom(q),
                       WindowTo(q)>>]

\* app.get("/stats") up to its first await on the cache
stats(q) == [NewRequest(q) EXCEPT !.key = <<"trends:stats">>]

\* the response of a handler that found its key in the cache
cachedBody(route, value) ==
  IF route \in {"search", "top"}
  THEN [success |-> TRUE, cached |-> TRUE, data |-> value]
  ELSE Spread([success |-> TRUE, cached |-> TRUE], value)

\* what a handler stores in the cache
cacheValue(r) ==
  IF r.route = "compare"
  THEN [words |-> r.words, from |-> r.from, to |-> r.to, data |-> r.results]
  ELSE r.data

\* the response of a handler that queried the store
freshBody(r) ==
  CASE r.route = "search" ->
         [success |-> TRUE, word |-> r.word, from |-> r.from, to |-> r.to,
          data |-> r.data]
    [] r.route = "top" ->
         [success |-> TRUE, minutes |-> r.minutes, limit |-> r.limit,
          data |-> r.data]
    [] r.route = "compare" -> Spread([success |-> TRUE], cacheValue(r))
    [] r.route = "stats" -> Spread([success |-> TRUE], r.data)

\* the lifetime of a route's cache entries, in seconds
ttl(route) ==
  CASE route = "search" -> SEARCH_TTL
    [] route = "top" -> TOP_TTL
    [] route = "compare" -> COMPARE_TTL
    [] route = "stats" -> STATS_TTL

\* the cache holds a live entry under the key
CacheHit(key) == key \in DOMAIN cache /\ clock < cache[key].expires

\* a request arrives: the handler runs up to its first await on the cache,
\* or rejects the request
Begin(requests) ==
  \E s \in Slots, q \in requests :
    /\ reqs[s].pc \in {"idle", "sent"}
    /\ served < MaxRequests
    /\ served' = served + 1
    /\ reqs' = [reqs EXCEPT ![s] =
                  CASE q.route = "search" -> search(q)
                    [] q.route = "top" -> top(q)
                    [] q.route = "compare" -> compare(q)
                    [] q.route = "stats" -> stats(q)]
    /\ UNCHANGED <<connVars, stage, input, output, table, trends, topic,
                   delivered, zone, cache, clock>>

\* cache.get(cacheKey) resolves or rejects (ok): a hit is answered from the
\* cache, a miss goes on to the query
CacheGet(oks) ==
  \E s \in Slots, ok \in oks :
    LET r == [reqs[s] EXCEPT !.gets = @ + 1]
    IN /\ r.pc = "get"
       /\ reqs' = [reqs EXCEPT ![s] =
            IF ~ok THEN Failure(r, "cache unavailable")
            ELSE IF CacheHit(r.key)
            THEN Reply([r EXCEPT !.fresh = cache[r.key].fresh], 200,
                       cachedBody(r.route, cache[r.key].value))
            ELSE [r EXCEPT !.pc = "query",
                           !.cutoff = clock - r.minutes * 60 * 1000]]
       /\ UNCHANGED <<connVars, stage, input, output, table, trends, topic,
                      delivered, zone, cache, clock, served>>

\* client.query.execute(query) resolves or rejects (ok); compare runs it
\* once for each word
Query(oks) ==
  \E s \in Slots, ok \in oks :
    LET r == [reqs[s] EXCEPT !.queries = @ + 1]
    IN /\ r.pc = "query"
       /\ IF ~ok THEN reqs' = [reqs EXCEPT ![s] = Failure(r, "store unavailable")]
          ELSE CASE r.route = "search" ->
                 \E data \in wordQuery(trends, r.word, r.from, r.to) :
                   reqs' = [reqs EXCEPT ![s] =
                              [r EXCEPT !.data = data, !.pc = "set"]]
            [] r.route = "top" ->
                 \E data \in topQuery(trends, r.cutoff, r.limit) :
                   reqs' = [reqs EXCEPT ![s] =
                              [r EXCEPT !.data = data, !.pc = "set"]]
            [] r.route = "compare" ->
                 \E data \in wordQuery(trends, r.words[r.idx], r.from, r.to) :
                   reqs' = [reqs EXCEPT ![s] =
                     [r EXCEPT
                        !.results = [w \in DOMAIN r.results \cup {r.words[r.idx]} |->
                                       IF w = r.words[r.idx] THEN data
                                       ELSE r.results[w]],
                        !.idx = @ + 1,
                        !.pc = IF r.idx = Len(r.words) THEN "set" ELSE "query"]]
            [] r.route = "stats" ->
                 reqs' = [reqs EXCEPT ![s] =
                            [r EXCEPT !.data = statsQuery(trends), !.pc = "set"]]
       /\ UNCHANGED <<connVars, stage, input, output, table, trends, topic,
                      delivered, zone, cache, clock, served>>

\* a faulty cache.set step: writing an entry evicts the entries of the
\* other keys
CacheSetEvicting(oks) ==
  \E s \in Slots, ok \in oks :
    LET r == reqs[s]
        entry == [value |-> cacheValue(r),
                  expires |-> clock + ttl(r.route) * 1000,
                  fresh |-> freshBody(r)]
    IN /\ r.pc = "set"
       /\ IF ok
          THEN /\ cache' = [k \in {r.key} |-> entry]
               /\ reqs' = [reqs EXCEPT ![s] =
                             Reply([r EXCEPT !.wrote = TRUE], 200, freshBody(r))]
          ELSE /\ cache' = cache
               /\ reqs' = [reqs EXCEPT ![s] = Failure(r, "cache unavailable")]
       /\ UNCHANGED <<connVars, stage, input, output, table, trends, topic,
                      delivered, zone, clock, served>>

\* a faulty cache.set step: a request that finds an entry already written
\* for its key does not write its own
CacheSetIfAbsent(oks) ==
  \E s \in Slots, ok \in oks :
    LET r == reqs[s]
        entry == [value |-> cacheValue(r),
                  expires |-> clock + ttl(r.route) * 1000,
                  fresh |-> freshBody(r)]
    IN /\ r.pc = "set"
       /\ IF ok /\ CacheHit(r.key)
          THEN /\ cache' = cache
               /\ reqs' = [reqs EXCEPT ![s] = Reply(r, 200, freshBody(r))]
          ELSE IF ok
          THEN /\ cache' = [k \in DOMAIN cache \cup {r.key} |->
                              IF k = r.key THEN entry ELSE cache[k]]
               /\ reqs' = [reqs EXCEPT ![s] =
                             Reply([r EXCEPT !.wrote = TRUE], 200, freshBody(r))]
          ELSE /\ cache' = cache
               /\ reqs' = [reqs EXCEPT ![s] = Failure(r, "cache unavailable")]
       /\ UNCHANGED <<connVars, stage, input, output, table, trends, topic,
                      delivered, zone, clock, served>>

\* cache.set(cacheKey, value, ttl) resolves or rejects (ok), then the fresh
\* response is sent
CacheSet(oks) ==
  \E s \in Slots, ok \in oks :
    LET r == reqs[s]
        entry == [value |-> cacheValue(r),
                  expires |-> clock + ttl(r.route) * 1000,
                  fresh |-> freshBody(r)]
    IN /\ r.pc = "set"
       /\ IF ok
          THEN /\ cache' = [k \in DOMAIN cache \cup {r.key} |->
                              IF k = r.key THEN entry ELSE cache[k]]
               /\ reqs' = [reqs EXCEPT ![s] =
                             Reply([r EXCEPT !.wrote = TRUE], 200, freshBody(r))]
          ELSE /\ cache' = cache
               /\ reqs' = [reqs EXCEPT ![s] = Failure(r, "cache unavailable")]
       /\ UNCHANGED <<connVars, stage, input, output, table, trends, topic,
                      delivered, zone, clock, served>>

\* time passes on the API host
Tick ==
  /\ \E i \in 1..(Len(ApiTimes) - 1) :
       clock = ApiTimes[i] /\ clock' = ApiTimes[i + 1]
  /\ UNCHANGED <<connVars, stage, input, output, table, trends, topic,
                 delivered, zone, reqs, cache, served>>

\* the pipeline inserts the next row into WordTrends
StoreInsert ==
  /\ Len(trends) < Len(StoreRows)
  /\ trends' = Append(trends, StoreRows[Len(trends) + 1])
  /\ UNCHANGED <<connVars, stage, input, output, table, topic, delivered,
                 zone, apiVars>>

InitApi == connector = "A" /\ InitCommon /\ store = <<>>

\* the API on the given requests; oks: the outcomes of cache and store calls
NextApi(requests, oks) ==
  \/ Begin(requests)
  \/ CacheGet(oks)
  \/ Query(oks)
  \/ CacheSet(oks)
  \/ Tick
  \/ StoreInsert

\* one request of each route that passes validation: a search and a
\* compare with an explicit window, a top and a stats
ValidRequests ==
  {q \in Requests :
     \/ q.route = "search" /\ q.word = Dog /\ q.window[1] # Absent
     \/ q.route = "top" /\ q.minutes = Absent /\ q.limit = 1
     \/ q.route = "compare" /\ q.words = TwoWords /\ q.window[1] # Absent
     \/ q.route = "stats"}

\* requests that fail validation: a search without word, a compare
\* without words, with separators only, with eleven words
InvalidRequests ==
  {q \in Requests :
     /\ q.route \in {"search", "compare"}
     /\ q.window[1] = Absent
     /\ \/ q.route = "search" /\ q.word = <<>>
        \/ /\ q.route = "compare"
           /\ q.words \in {<<>>, OnlySeparators, ElevenWords}}

\* the API with cache and store calls that can fail
SpecApi ==
  InitApi /\ [][NextApi(ValidRequests \cup InvalidRequests, BOOLEAN)]_vars

\* compare alone, with an explicit window and cache and store answering
SpecCompare ==
  InitApi /\
  [][NextApi({q \in CompareRequests : q.window[1] # Absent}, {TRUE})]_vars

\* search alone, with cache and store answering
SpecSearch == InitApi /\ [][NextApi(SearchRequests, {TRUE})]_vars

\* top alone, with cache and store answering
SpecTop == InitApi /\ [][NextApi(TopRequests, {TRUE})]_vars

\* the requests that pass validation on an empty WordTrends, with store
\* queries that can fail and the cache answering
NextStoreFail ==
  \/ Begin(ValidRequests)
  \/ CacheGet({TRUE})
  \/ Query(BOOLEAN)
  \/ CacheSet({TRUE})
  \/ Tick

SpecStoreFail == InitApi /\ [][NextStoreFail]_vars

\* a search and a top, with cache and store answering every call
SpecOverlap ==
  InitApi /\
  [][NextApi({q \in ValidRequests : q.route \in {"search", "top"}}, {TRUE})]_vars

\* the requests that pass validation, with cache and store calls that can
\* fail, while the pipeline fills WordTrends and no cache entry expires
NextReadOnly ==
  \/ Begin(ValidRequests)
  \/ CacheGet(BOOLEAN)
  \/ Query(BOOLEAN)
  \/ CacheSet(BOOLEAN)
  \/ StoreInsert

SpecReadOnly == InitApi /\ [][NextReadOnly]_vars

\* the API with cache and store answering every call
\* search and compare requests that omit from and to
DefaultWindowRequests ==
  {q \in Requests :
     /\ \/ q.route = "search" /\ q.word = Dog
        \/ q.route = "compare" /\ q.words = TwoWords
     /\ q.window = <<Absent, Absent>>}

SpecDefaultWindow == InitApi /\ [][NextApi(DefaultWindowRequests, {TRUE})]_vars

SpecApiOk == InitApi /\ [][NextApi(ValidRequests, {TRUE})]_vars

\* the response without its cached flag
WithoutCachedFlag(body) == [f \in DOMAIN body \ {"cached"} |-> body[f]]

\* C24: a response served from the cache carries the same payload fields
\* with the same values as the fresh response that wrote the cache entry,
\* differing only in the cached flag.
C24_CachedSameAsFresh ==
  \A s \in Slots :
    (reqs[s].pc = "sent" /\ "cached" \in DOMAIN reqs[s].body) =>
      WithoutCachedFlag(reqs[s].body) = reqs[s].fresh

\* C25: every failure response, validation failure (400) or execution
\* failure (500), is {success: false, error: <string>}, and every success
\* response has success: true.
C25_FailureEnvelope ==
  \A s \in Slots :
    reqs[s].pc = "sent" =>
      /\ reqs[s].status \in {400, 500} =>
           /\ DOMAIN reqs[s].body = {"success", "error"}
           /\ reqs[s].body.success = FALSE
      /\ reqs[s].status = 200 => reqs[s].body.success = TRUE

\* the number of comma-separated pieces of the words parameter that hold
\* something other than whitespace
NonBlankPieces(wordsParam) ==
  LET commas == {i \in 1..Len(wordsParam) : wordsParam[i] = ","}
  IN Cardinality(
       {a \in {0} \cup commas :
          \E k \in (a + 1)..Len(wordsParam) :
            /\ wordsParam[k] \notin Whitespace \cup {","}
            /\ \A j \in (a + 1)..k : wordsParam[j] # ","})

\* the slot's request was rejected: answered 400 without reading the cache
\* or the store and without writing the cache
Rejected(s) ==
  /\ reqs[s].pc = "sent"
  /\ reqs[s].status = 400
  /\ reqs[s].gets = 0
  /\ reqs[s].queries = 0
  /\ ~reqs[s].wrote

\* C26: compare accepts 1 to 10 words: a request whose words parameter is
\* missing, empty or holds only separators and whitespace, or holds more
\* than 10 words, is rejected with 400 and reads neither cache nor store
\* and writes no cache entry; any other request is never answered 400.
C26_CompareOneToTenWords ==
  \A s \in Slots :
    (reqs[s].pc # "idle" /\ reqs[s].route = "compare") =>
      IF NonBlankPieces(reqs[s].query.words) \in 1..MAX_WORDS
      THEN reqs[s].status # 400
      ELSE Rejected(s)

\* a compare of eleven words was rejected and one of ten words answered
C26_Witness ==
  \E s, u \in Slots :
    /\ Rejected(s)
    /\ NonBlankPieces(reqs[s].query.words) = MAX_WORDS + 1
    /\ reqs[u].pc = "sent"
    /\ reqs[u].status = 200
    /\ Len(reqs[u].words) = MAX_WORDS

\* the slot's search was answered 200 with these rows
SearchAnswered(s) ==
  /\ reqs[s].pc = "sent"
  /\ reqs[s].route = "search"
  /\ reqs[s].status = 200

\* the word and the window search works with are the lower-cased word and
\* the given window, or the hour up to the time of the request
SearchWordAndWindow(s) ==
  LET r == reqs[s]
      q == r.query
  IN /\ r.status # 400
     /\ Len(r.word) = Len(q.word)
     /\ \A i \in 1..Len(q.word) :
          /\ \A k \in 1..Len(UpperLetters) : r.word[i] # UpperLetters[k]
          /\ r.word[i] = LowerChar(q.word[i])
     /\ IF q.window[1] = Absent
        THEN /\ r.to - r.from = 60 * 60 * 1000
             /\ \E i \in 1..Len(ApiTimes) : r.to = ApiTimes[i] /\ r.to <= clock
        ELSE r.from = q.window[1] /\ r.to = q.window[2]

\* the rows are rows of the word in the store
SearchRowsOfWord(s) ==
  \A i \in 1..Len(reqs[s].body.data) :
    \E k \in 1..Len(trends) :
      /\ trends[k].word = reqs[s].word
      /\ trends[k].interval = reqs[s].body.data[i].interval
      /\ trends[k].totalCount = reqs[s].body.data[i].count

\* the rows lie in the window
SearchRowsInWindow(s) ==
  \A i \in 1..Len(reqs[s].body.data) :
    /\ reqs[s].body.data[i].interval >= reqs[s].from
    /\ reqs[s].body.data[i].interval <= reqs[s].to

\* the rows are in ascending order of interval
SearchRowsAscending(s) ==
  \A i, j \in 1..Len(reqs[s].body.data) :
    i < j => reqs[s].body.data[i].interval <= reqs[s].body.data[j].interval

\* no interval has two rows
SearchRowsOnce(s) ==
  \A i, j \in 1..Len(reqs[s].body.data) :
    i # j => reqs[s].body.data[i].interval # reqs[s].body.data[j].interval

\* C27: search rejects a request without word with 400 before touching
\* cache or store; otherwise it lower-cases the word, uses the hour up to
\* now when from and to are omitted, and returns only rows of that word
\* whose interval lies in the window, in ascending order of interval, each
\* (word, interval) at most once.
C27_SearchWindowOrderedOnce ==
  \A s \in Slots :
    (reqs[s].pc # "idle" /\ reqs[s].route = "search") =>
      IF reqs[s].query.word = <<>>
      THEN Rejected(s)
      ELSE /\ SearchWordAndWindow(s)
           /\ SearchAnswered(s) =>
                /\ SearchRowsOfWord(s)
                /\ SearchRowsInWindow(s)
                /\ SearchRowsAscending(s)
                /\ SearchRowsOnce(s)

\* the slot's top was answered 200, fresh or from the cache
TopAnswered(s) ==
  /\ reqs[s].pc = "sent"
  /\ reqs[s].route = "top"
  /\ reqs[s].status = 200

\* the limit the request asked for: 20 when it gave none
RequestedLimit(q) == IF q.limit = Absent THEN 20 ELSE q.limit

\* the minutes the request asked for: 5 when it gave none
RequestedMinutes(q) == IF q.minutes = Absent THEN 5 ELSE q.minutes

\* the entries are in non-increasing order of summed count
TopNonIncreasing(s) ==
  \A i, j \in 1..Len(reqs[s].body.data) :
    i < j => reqs[s].body.data[i].total >= reqs[s].body.data[j].total

\* C28: top never returns more entries than the requested limit (20 when
\* limit is omitted, over 5 minutes when minutes is omitted), and the
\* entries are in non-increasing order of summed count, in a fresh response
\* and in one served from the cache.
C28_TopAtMostLimitNonIncreasing ==
  \A s \in Slots :
    TopAnswered(s) =>
      /\ reqs[s].minutes = RequestedMinutes(reqs[s].query)
      /\ Len(reqs[s].body.data) <= RequestedLimit(reqs[s].query)
      /\ TopNonIncreasing(s)

\* the slot's request is at its store query
Querying(s) == reqs[s].pc = "query"

\* the slot's store query has just failed
QueryFailed(s) ==
  /\ Querying(s)
  /\ reqs'[s].pc = "sent"
  /\ reqs'[s].status = 500

\* the slot's request was answered 500
Answered500(s) == reqs[s].pc = "sent" /\ reqs[s].status = 500

\* C29: when the store query of search, top, compare or stats fails, at
\* the first or at a later word of compare, the request is answered 500
\* with the underlying message, the service goes on accepting requests, and
\* the request writes no cache entry, the cache being written only by a
\* request that is answered 200, so that a later request with the same key
\* that finds no entry goes to the store again.
C29_StoreFailureAnswered500NotCached ==
  /\ [](\A s \in Slots :
          Answered500(s) =>
            /\ ~reqs[s].wrote
            /\ served < MaxRequests => ENABLED Begin(ValidRequests))
  /\ [][/\ \A s \in Slots :
             /\ QueryFailed(s) =>
                  /\ reqs'[s].body =
                       [success |-> FALSE, error |-> "store unavailable"]
                  /\ cache' = cache
             /\ (reqs[s].pc = "get" /\ ~CacheHit(reqs[s].key) /\
                 reqs'[s] # reqs[s] /\ reqs'[s].status # 500)
                  => Querying(s)'
        /\ cache' # cache =>
             \E s \in Slots : reqs[s].pc = "set" /\ reqs'[s].status = 200]_vars

\* compare's query of its second word failed after the first succeeded,
\* nothing is cached for its key, and another request with that key has
\* queried the store and been answered
C29_Witness ==
  \E s, u \in Slots :
    /\ Answered500(s)
    /\ reqs[s].body.error = "store unavailable"
    /\ reqs[s].route = "compare"
    /\ reqs[s].queries = 2
    /\ DOMAIN reqs[s].results # {}
    /\ reqs[u].pc = "sent"
    /\ reqs[u].key = reqs[s].key
    /\ reqs[u].status = 200
    /\ reqs[u].queries = 2
    /\ "cached" \notin DOMAIN reqs[u].body

\* the slot's request is between its cache lookup and its response
InFlight(s) == reqs[s].pc \in {"get", "query", "set"}

\* the slot's request was answered 200 with a fresh response
AnsweredFresh(s) ==
  /\ reqs[s].pc = "sent"
  /\ reqs[s].status = 200
  /\ "cached" \notin DOMAIN reqs[s].body

\* the number of store queries a request of the slot's route runs
QueriesOf(s) ==
  IF reqs[s].route = "compare" THEN Len(reqs[s].words) ELSE 1

\* C30: two requests with the same cache key that overlap, the second
\* arriving before the first has written the cache, do not coalesce: each
\* runs its own store query, each writes the cache entry, neither waits for
\* the other, and both are answered successfully.
C30_OverlappingRequestsDoNotCoalesce ==
  /\ [](\A s \in Slots :
          /\ AnsweredFresh(s) =>
               reqs[s].queries = QueriesOf(s) /\ reqs[s].wrote
          /\ InFlight(s) =>
               ENABLED ((CacheGet({TRUE}) \/ Query({TRUE}) \/ CacheSet({TRUE}))
                          /\ reqs'[s] # reqs[s]))
  /\ [][\A s \in Slots :
          /\ (reqs[s].pc = "get" /\ ~CacheHit(reqs[s].key) /\
              reqs'[s] # reqs[s]) => Querying(s)'
          /\ (reqs[s].pc = "set" /\ reqs'[s] # reqs[s]) =>
               /\ AnsweredFresh(s)'
               /\ reqs'[s].key \in DOMAIN cache'
               /\ cache'[reqs'[s].key].expires =
                    clock + ttl(reqs[s].route) * 1000
               /\ cache'[reqs'[s].key].value = cacheValue(reqs[s])]_vars

\* two requests with the same key were both answered fresh within the life
\* of the first one's cache entry, each after its own query and cache write
C30_Witness ==
  \E s, u \in Slots :
    /\ s # u
    /\ AnsweredFresh(s)
    /\ AnsweredFresh(u)
    /\ reqs[s].key = reqs[u].key
    /\ reqs[s].queries >= 1 /\ reqs[u].queries >= 1
    /\ reqs[s].wrote /\ reqs[u].wrote
    /\ clock = ApiTimes[1]

\* the slot's handler takes a step
HandlerStep(s) == reqs'[s] # reqs[s]

\* C31: search, top, compare and stats are read-only: no step of a request
\* changes WordTrends, and the only state a request changes is the cache
\* entry under its own key; the entries under other keys are left as they
\* are.
C31_RequestsReadOnly ==
  [][\A s \in Slots :
       HandlerStep(s) =>
         /\ trends' = trends
         /\ table' = table
         /\ store' = store
         /\ DOMAIN cache \subseteq DOMAIN cache'
         /\ DOMAIN cache' \subseteq DOMAIN cache \cup {reqs'[s].key}
         /\ \A k \in DOMAIN cache : k # reqs'[s].key => cache'[k] = cache[k]
         /\ cache' # cache => reqs[s].pc = "set"]_vars

\* requests have written the cache entries of two keys over rows in
\* WordTrends
C31_Witness ==
  /\ Cardinality(DOMAIN cache) >= 2
  /\ Len(trends) >= 1
  /\ \E s \in Slots : reqs[s].pc = "sent" /\ reqs[s].wrote

\* the step handles an inbound message
HandlesMessage == nmsgs' = nmsgs + 1

\* the step starts an un-awaited saveCursor call
StartsSave == Len(saves') = Len(saves) + 1

\* C32: (K) within a connection a save is started exactly at each inbound
\* message that makes the count of position-bearing messages a positive
\* multiple of SAVE_EVERY, with that message's position; and every close
\* of the socket is followed by a save of the in-memory cursor before the
\* result is reported.
C32_SavedPeriodicallyAndOnClose ==
  [][/\ StartsSave => HandlesMessage
     /\ HandlesMessage =>
          /\ StartsSave <=> /\ messageCount' = messageCount + 1
                            /\ messageCount' % SAVE_EVERY = 0
          /\ messageCount' # messageCount =>
               currentCursor' = lastPos' /\ lastPos' # 0
          /\ StartsSave => saves'[Len(saves')] = lastPos'
     /\ Reports =>
          /\ pc = "closeSave"
          /\ closeWrote' \in {0, currentCursor}
          /\ store' \in {store, NumToString(currentCursor)}
          /\ closeWrote' = currentCursor => store' = NumToString(currentCursor)]_vars

\* a connection that started a periodic save at its SAVE_EVERY-th message
\* has closed, saved the cursor and reported
C32_Witness ==
  /\ connector = "K"
  /\ result \in {"disconnected", "cancelled"}
  /\ pc \in {"sleep", "done"}
  /\ messageCount = SAVE_EVERY
  /\ closeWrote = currentCursor
  /\ closeWrote > 0

\* the states of the connector's state machine, read off the loop's
\* position and the socket
Idle == pc \in {"start", "sleep", "catch", "done"}

Connecting == pc = "connected" /\ sock = "connecting"

Streaming == pc = "connected" /\ sock = "open"

\* the socket is closing or has failed, or its close handler is running
Closing == \/ pc = "connected" /\ sock \in {"closing", "errored"}
           \/ pc \in {"closeFlush", "closeWait", "closeSave"}

\* C33: the connector follows Idle, Connecting, Streaming, Closing (or
\* Cancelled), Idle: while the loop is idle or a close handler runs no
\* socket is live, so at most one connection exists; a connection attempt
\* starts only from Idle, after the close handler of the previous connection
\* has flushed, saved and reported; and a connection reports once, from the
\* close handler's save, after which the loop is idle.
C33_ConnectorStateMachine ==
  /\ [](/\ Idle \/ Connecting \/ Streaming \/ Closing
        /\ Idle => sock \in {"none", "closed"}
        /\ pc \in {"closeFlush", "closeWait", "closeSave"} => sock = "closed"
        /\ pc = "connected" => sock \in Live)
  /\ [][/\ (sock' = "connecting" /\ sock # "connecting") =>
             /\ Idle /\ pc # "done"
             /\ Connecting'
             /\ pc = "sleep" /\ result # "none" => result = "disconnected"
        /\ (Connecting /\ pc' # pc) => Closing'
        /\ (Connecting /\ sock' # sock) => Streaming' \/ Closing'
        /\ (Streaming /\ (sock' # sock \/ pc' # pc)) => Closing'
        /\ (Closing /\ ~Closing') => Reports /\ Idle'
        /\ Reports =>
             /\ pc = "closeSave"
             /\ result' = IF wasCancelled THEN "cancelled" ELSE "disconnected"
             /\ pc' = IF wasCancelled THEN "done" ELSE "sleep"
        /\ result' # result => Reports]_vars

\* a second connection is streaming after the first closed and reported
C33_Witness ==
  /\ Streaming
  /\ result = "disconnected"
  /\ closeWrote > 0
  /\ nmsgs > 0

\* the posts of the batches handed to the sink, in the order of the
\* batches, followed by the posts of the open batch
RECURSIVE PostsInOrder(_)
PostsInOrder(batches) ==
  IF batches = <<>> THEN postBatch
  ELSE Head(batches).batch \o PostsInOrder(Tail(batches))

\* the handler of an earlier message is still running: its await of the
\* sink has not ended
HandlerRunning ==
  connector = "A" /\ \E i \in 1..Len(sends) : sends[i].st = "inflight"

\* C34: messages of one connection are handled one at a time: the posts
\* enter the batches in the order their messages were delivered, the
\* batches are handed to the sink in the order they were closed, and no
\* message is handled while the handler of an earlier one is still running.
C34_MessagesHandledOneAtATime ==
  /\ [](PostsInOrder(sends) = [n \in 1..Len(queued) |-> n])
  /\ [][HandlesMessage => ~HandlerRunning]_vars

\* the step is a connection attempt: the loop's head builds the URL
Attempts == pc \in {"start", "sleep"} /\ pc' \in {"connected", "catch"}

\* C35: the cursor store is read exactly once, at the start of
\* firehoseTask.run; every connection attempt builds its URL from the
\* in-memory cursor at that moment, with cursor=<value> if and only if the
\* value is greater than zero, and a reconnect does not read the store
\* again: it leaves the in-memory cursor as the connection left it.
C35_StoreReadOnceUrlFromMemory ==
  /\ [](pc # "start" <=> loadResult # "none")
  /\ [](BuildUrl(0) = <<"base">> /\ BuildUrl(lastPos + 1) = <<"base", lastPos + 1>>)
  /\ [][/\ loadResult' # loadResult => pc = "start"
        /\ url' # url => Attempts
        /\ Attempts =>
             url' = IF currentCursor' > 0 THEN <<"base", currentCursor'>>
                    ELSE <<"base">>
        /\ (Attempts /\ pc = "sleep") => currentCursor' = currentCursor]_vars

\* a reconnect has requested the in-memory cursor while the store holds
\* another value
C35_Witness ==
  /\ pc = "connected"
  /\ result = "disconnected"
  /\ url = <<"base", currentCursor>>
  /\ store # NumToString(currentCursor)
  /\ lastPos = currentCursor

\* the value the cursor store holds, zero while it holds none
StoredCursor == IF store = <<>> THEN 0 ELSE ParseInt(store)

\* C36: the value held in the cursor store never decreases during one
\* connector process, also when an un-awaited periodic save and a later
\* save are in flight together and complete in either order; and after the
\* close handler has reported, the store holds the latest in-memory cursor.
\* the state SpecStreaming starts in, as a state of a run from its start
StreamingReached ==
  /\ connector = "K" /\ pc = "connected" /\ sock = "open" /\ store = <<>>
  /\ loadResult = "absent" /\ messageCount = 1 /\ nmsgs = 1
  /\ currentCursor = lastPos /\ url = BuildUrl(currentCursor)
  /\ aborted = FALSE /\ wasCancelled = FALSE /\ result = "none"
  /\ delay = 0 /\ postBatch = <<>> /\ batchTimer = FALSE /\ sends = <<>>
  /\ saves = <<>> /\ queued = <<>> /\ postsProcessed = 0
  /\ handlers = Registered(0)

C36_StoredCursorNeverDecreases ==
  /\ [][StoredCursor' >= StoredCursor]_vars
  /\ [][Reports => StoredCursor' = currentCursor']_vars
  /\ [][(saves = <<>> /\ result # "none") => StoredCursor' = StoredCursor]_vars

\* the connection's abort listener is registered: from the socket's
\* creation until its close handler starts
ListenerRegistered == sock \in {"connecting", "open", "closing", "errored"}

\* the cancellation signal fires in this step
AbortFires == aborted' /\ ~aborted

\* C37: connectAndProcess reports Cancelled if and only if the abort fired
\* while that connection's abort listener was registered; a close with any
\* other cause (server close, socket error, a signal handler closing the
\* socket, an abort after the close handler started) is reported as
\* Disconnected, and after it the loop reconnects unless the signal is
\* aborted when the loop condition is next checked.
C37_CancelledIffAbortWhileListening ==
  /\ [](wasCancelled => aborted)
  /\ [][/\ AbortFires => (wasCancelled' <=> ListenerRegistered)
        /\ (wasCancelled' # wasCancelled) =>
             \/ AbortFires /\ ListenerRegistered
             \/ ~wasCancelled' /\ sock' = "connecting" /\ sock # "connecting"
        /\ Reports => /\ result' = "cancelled" <=> wasCancelled
                      /\ result' = "disconnected" <=> ~wasCancelled
                      /\ pc' = "sleep" <=> ~wasCancelled
        /\ result' # result => Reports
        /\ (pc = "sleep" /\ pc' # "sleep") =>
             IF aborted THEN pc' = "done" /\ sock' = sock
             ELSE pc' \in {"connected", "catch"}]_vars

\* a connection closed by a signal handler was reported Disconnected though
\* the abort fired before the report (after the close handler had started),
\* and the loop ended at its next check
C37_Witness ==
  /\ result = "disconnected"
  /\ aborted
  /\ ~wasCancelled
  /\ pc = "done"
  /\ sock = "closed"

\* slot e holds an answered request that wrote a cache entry which has not
\* expired, and slot s a request with the same parameters, the window
\* omitted, about to look the cache up
EarlierIdentical(s, e) ==
  /\ s # e
  /\ reqs[s].pc = "get"
  /\ reqs[e].pc = "sent"
  /\ reqs[e].wrote
  /\ reqs[e].query = reqs[s].query
  /\ reqs[s].query.window = <<Absent, Absent>>
  /\ reqs[e].key \in DOMAIN cache
  /\ clock < cache[reqs[e].key].expires

\* C38: a search or compare request that omits from and to is served from
\* the cache entry written by an earlier request with the same word(s) made
\* within the TTL: its cache key equals the key of the earlier request, and
\* its lookup answers with the cached body.
C38_DefaultWindowServedFromCache ==
  [][\A s, e \in Slots :
       (EarlierIdentical(s, e) /\ HandlerStep(s)) =>
         /\ reqs[s].key = reqs[e].key
         /\ reqs'[s].pc = "sent"
         /\ reqs'[s].status = 200
         /\ reqs'[s].body.cached]_vars

\* the number of posts handed to sendBatch so far
PostsHanded == Len(PostsInOrder(sends))

\* C39: in the HTTP-batching connector every post handed to sendBatch is
\* counted once, in postsProcessed if its POST was answered ok and in
\* postsErrored otherwise, so between two statistics resets
\* postsProcessed + postsErrored never exceeds the number of posts handed
\* to sendBatch, also when a send throws after some of its posts were
\* delivered.
C39_EachPostCountedOnce ==
  connector = "H" => postsProcessed + postsErrored <= PostsHanded

\* the signal handlers one connection registers: SIGINT and SIGTERM
HandlersOfOne == Registered(0)

\* C40: every listener a connection registers (the abort listener on the
\* cancellation signal, the SIGINT and SIGTERM handlers on the process) is
\* removed by the time the connection reports its result; so the listeners
\* registered never exceed those of one connection however many times the
\* connector reconnects, and no handler of a closed connection is left to
\* run later.
C40_ListenersRemovedAtReport ==
  /\ [](handlers <= HandlersOfOne)
  /\ [](pc \in {"start", "catch", "sleep", "done"} => handlers = 0)
  /\ [][Reports => ~ListenerRegistered' /\ handlers' = 0]_vars

====
